---- MODULE Spec2Model ----
(***************************************************************************)
(* Model of the mining orchestration engine of xrt-classic-miner           *)
(* (src/xrt_miner/miner.py): the sequential batch loop (mine_batch_loop,   *)
(* mine_batch) and the pipeline loop (mine_pipeline_loop with its helpers  *)
(* _build_create_txs, _build_finalize_txs, _collect_create_receipts,       *)
(* _collect_finalize_receipts, _ensure_stake, swap_xrt_to_eth).            *)
(*                                                                         *)
(* The chain is the environment: every RPC call either returns or raises,  *)
(* every awaited transaction is reverted, confirmed or times out.  Amounts *)
(* are small naturals (token units, gas units); a liability address and a  *)
(* result payload are named by the account nonce of the create             *)
(* transaction they belong to, which is unique among mined transactions.   *)
(***************************************************************************)
EXTENDS Integers, Sequences, FiniteSets, TLC

\* ------------------------------------------------------------------ bounds
MaxBatch == 2
MaxRounds == 3
MaxGasUsed == 1
MaxInitBal == 1
MaxQuote == 1
MaxGasPrice == 5
MaxEthUsd == 2
MaxCostArg == 3
MaxCalls == 2
MaxXrtValue == 6
MaxSingleTxs == 4
ByteBase == 4
IntWidth == 2
MaxAmount == 1
MaxSignNonce == 1

\* ------------------------------------------------- configuration of a run
\* minimalStake() of the lighthouse, in token units
MinimalStake == 1
\* sell_every_xrt, in token units
SellEveryXrt == 2
\* eth_budget, in gas units
EthBudget == 6
\* max_cost_usd when dynamic sizing is on, in units of the cost of one
\* liability at gas price 1 and conversion rate 1
MaxCostUsd == 2

VARIABLES
    mode,                 \* "batch" (mine_batch_loop) or "pipeline" (mine_pipeline_loop)
    pc,                   \* position of the single thread of control
    batch_size,           \* argument batch_size
    dynamic,              \* max_cost_usd > 0
    \* chain state
    chainNonce,           \* w3.eth.get_transaction_count(self.address)
    chainFactoryNonce,    \* factory.nonceOf(self.address)
    chainStake,           \* lighthouse.stakes(self.address)
    chainXrt,             \* xrt.balanceOf(self.address)
    chainEth,             \* w3.eth.get_balance(self.address), relative to the start
    \* locals of the loops
    eth_start,
    batch_num,
    current_batch,
    eth_nonce,
    factory_nonce,
    n_fin,
    fin_hashes,
    create_hashes,
    result_datas,
    liabilities,
    idx,                  \* index of the for loop in progress
    gas,                  \* accumulator local to the collect function in progress
    xrt,                  \* accumulator local to the collect function in progress
    create_gas,
    prev_liabilities,     \* None or a list
    prev_result_datas,
    total_gas,
    total_xrt_minted,
    total_eth_from_sells,
    xrt_since_last_sell,
    \* observation of the run
    receipts,             \* receipts obtained by the collect function in progress
    lastSell,             \* what the last auto-sell / final sell step did
    \* mine_loop, and the functions modelled on their own
    args,                 \* arguments of the entry point that is modelled
    ret,                  \* what the calls of a function have returned so far
    loop_i,               \* mine_loop: i, the liabilities mined
    total_minted,         \* mine_loop: tokens minted
    prof                  \* mine_loop: the dict check_profitability returned

chainVars == <<chainNonce, chainFactoryNonce, chainStake, chainXrt, chainEth>>
phaseVars == <<eth_nonce, factory_nonce, n_fin, fin_hashes, create_hashes,
               result_datas, liabilities, idx, gas, xrt, create_gas>>
carryVars == <<prev_liabilities, prev_result_datas>>
totalVars == <<total_gas, total_xrt_minted, total_eth_from_sells, xrt_since_last_sell>>
paramVars == <<mode, batch_size, dynamic>>
callVars == <<args, ret, loop_i, total_minted, prof>>
vars == <<mode, pc, batch_size, dynamic, chainNonce, chainFactoryNonce, chainStake,
          chainXrt, chainEth, eth_start, batch_num, current_batch, eth_nonce,
          factory_nonce, n_fin, fin_hashes, create_hashes, result_datas, liabilities,
          idx, gas, xrt, create_gas, prev_liabilities, prev_result_datas, total_gas,
          total_xrt_minted, total_eth_from_sells, xrt_since_last_sell, receipts,
          lastSell, args, ret, loop_i, total_minted, prof>>

\* Python's None where a list or a tuple may stand: a value no list of
\* liabilities, payloads or return values equals (their elements are >= 0)
None == <<-1>>

Min(a, b) == IF a <= b THEN a ELSE b

RECURSIVE SumSeq(_)
SumSeq(s) == IF s = <<>> THEN 0 ELSE Head(s) + SumSeq(Tail(s))

TakeAllButLast(s, n) == SubSeq(s, 1, Min(n, Len(s)) - 1)

\* s[:n] of Python
Take(s, n) == SubSeq(s, 1, Min(n, Len(s)))

ZipLenDropsLast(a, b) ==
    IF Min(Len(a), Len(b)) > 0 THEN Min(Len(a), Len(b)) - 1 ELSE 0

\* zip(a, b) of Python stops at the shorter list
ZipLen(a, b) == Min(Len(a), Len(b))

\* ------------------------------------------------------------ transactions
CreateTx(nonce, dnonce, ononce) ==
    [kind |-> "create", nonce |-> nonce, demand_nonce |-> dnonce,
     offer_nonce |-> ononce, liability |-> 0, result_data |-> 0]

FinalizeTx(nonce, liability_addr, result_data) ==
    [kind |-> "finalize", nonce |-> nonce, demand_nonce |-> 0,
     offer_nonce |-> 0, liability |-> liability_addr, result_data |-> result_data]

\* the address of the liability a confirmed create transaction deploys, and the
\* os.urandom(34) payload drawn in the same loop iteration as that transaction
LiabilityAt(nonce) == nonce + 1
ResultDataAt(nonce) == nonce + 1

\* --------------------------------------------------------------- receipts
Log(address, ntopics, topic0, to, data) ==
    [address |-> address, ntopics |-> ntopics, topic0 |-> topic0, to |-> to, data |-> data]

\* the logs a confirmed finalizeLiability receipt may carry: the mint to this
\* account, or a receipt without it (a Transfer of another contract, another
\* event of the token, a Transfer of the token to another destination)
FinalizeLogs ==
    { << Log("xrt", 3, "Transfer", "me", 1) >>,
      << Log("other", 3, "Transfer", "me", 1), Log("xrt", 3, "Approval", "me", 1),
         Log("xrt", 3, "Transfer", "other", 1) >> }

\* the test of the log scan, lines 500-502 (and 335-337 in mine_batch)
CountedLog(log) ==
    log.address = "xrt" /\ log.ntopics >= 3 /\ log.topic0 = "Transfer"

RECURSIVE CountedAmount(_)
CountedAmount(logs) ==
    IF logs = <<>> THEN 0
    ELSE (IF CountedLog(Head(logs)) THEN Head(logs).data ELSE 0) + CountedAmount(Tail(logs))

\* tokens the receipt really credits to this account
RECURSIVE CreditedAmount(_)
CreditedAmount(logs) ==
    IF logs = <<>> THEN 0
    ELSE (IF Head(logs).address = "xrt" /\ Head(logs).ntopics >= 3
             /\ Head(logs).topic0 = "Transfer" /\ Head(logs).to = "me"
          THEN Head(logs).data ELSE 0) + CreditedAmount(Tail(logs))

\* ------------------------------------------------------------ pure helpers
EffectiveBatchSizeRoundsUp(max_batch, max_cost_usd, gas_price, eth_usd) ==
    LET cost_per_liability_usd == gas_price * eth_usd
    IN  IF cost_per_liability_usd <= max_cost_usd THEN max_batch
        ELSE (max_batch * max_cost_usd + cost_per_liability_usd - 1)
                 \div cost_per_liability_usd

EffectiveBatchSizeFullAboveTwiceCap(max_batch, max_cost_usd, gas_price, eth_usd) ==
    LET cost_per_liability_usd == gas_price * eth_usd
    IN  IF cost_per_liability_usd <= max_cost_usd THEN max_batch
        ELSE IF cost_per_liability_usd > 2 * max_cost_usd THEN max_batch
        ELSE (max_batch * max_cost_usd) \div cost_per_liability_usd

\* _effective_batch_size, lines 86-92: the cost of one liability is the gas
\* price times the conversion rate, in units in which GAS_PER_LIABILITY / 1e18
\* is 1; int() truncates, the operands are not negative
EffectiveBatchSize(max_batch, max_cost_usd, gas_price, eth_usd) ==
    LET cost_per_liability_usd == gas_price * eth_usd
    IN  IF cost_per_liability_usd <= max_cost_usd THEN max_batch
        ELSE LET effective == (max_batch * max_cost_usd) \div cost_per_liability_usd
             IN  IF effective > 0 THEN effective ELSE 0

StakeAmountUnclamped(needed_quota, my_stake, xrt_bal) ==
    LET needed == needed_quota * MinimalStake
    IN  IF my_stake >= needed THEN 0 ELSE needed - my_stake

\* _ensure_stake: the amount passed to self.stake(), 0 when it returns early
StakeAmount(needed_quota, my_stake, xrt_bal) ==
    LET needed == needed_quota * MinimalStake
        extra == needed - my_stake
    IN  IF my_stake >= needed THEN 0
        ELSE IF xrt_bal < extra THEN (IF xrt_bal > 0 THEN xrt_bal ELSE 0)
        ELSE extra

\* the account starts unstaked, staked for the quota of one batch, or staked
\* for the pipeline quota of two batches
InitStakes == {0, MaxBatch * MinimalStake, 2 * MaxBatch * MinimalStake}

\* lastSell numbers the calls of swap_xrt_to_eth and keeps the last one's outcome
NoSell == [seq |-> 0, ok |-> FALSE, amount |-> 0]

SellRecord(ok, amount) == [seq |-> lastSell.seq + 1, ok |-> ok, amount |-> amount]

GasUsedSet == 1..MaxGasUsed

\* a transaction of this account is mined: the account nonce advances, gas is paid
Mined(g, dFactory, dStake, dXrt, dEth) ==
    /\ chainNonce' = chainNonce + 1
    /\ chainEth' = chainEth - g + dEth
    /\ chainFactoryNonce' = chainFactoryNonce + dFactory
    /\ chainStake' = chainStake + dStake
    /\ chainXrt' = chainXrt + dXrt

\* self.stake(amount) through _send_tx: refill confirmed
StakeOk(amount) ==
    \E g \in GasUsedSet : Mined(g, 0, amount, -amount, 0)

\* self.stake(amount) raises: RPC failure, or the refill is mined and reverts
StakeRaises ==
    \/ UNCHANGED chainVars
    \/ \E g \in GasUsedSet : Mined(g, 0, 0, 0, 0)

\* swap_xrt_to_eth(xrt_amount) returns amounts_out[1]
SwapOk(xrt_amount, eth_received) ==
    \E g \in GasUsedSet : Mined(g, 0, 0, -xrt_amount, eth_received)

\* swap_xrt_to_eth raises: the quote fails, or the swap is mined and reverts
SwapRaises ==
    \/ UNCHANGED chainVars
    \/ \E g \in GasUsedSet : Mined(g, 0, 0, 0, 0)

\* the locals of a finished phase are dead: they are cleared
ClearCollect ==
    /\ idx' = 0
    /\ gas' = 0
    /\ xrt' = 0
    /\ receipts' = <<>>

ClearPhase ==
    /\ eth_nonce' = 0
    /\ n_fin' = 0
    /\ factory_nonce' = 0
    /\ fin_hashes' = <<>>
    /\ create_hashes' = <<>>
    /\ result_datas' = <<>>
    /\ liabilities' = <<>>
    /\ idx' = 0
    /\ gas' = 0
    /\ xrt' = 0
    /\ create_gas' = 0
    /\ receipts' = <<>>

Init ==
    /\ mode \in {"pipeline", "batch"}
    /\ pc = "start"
    /\ batch_size = MaxBatch
    /\ dynamic \in (IF mode = "pipeline" THEN BOOLEAN ELSE {FALSE})
    /\ chainNonce = 0
    /\ chainFactoryNonce = 0
    /\ chainStake \in InitStakes
    /\ chainXrt \in 0..MaxInitBal
    /\ chainEth = 0
    /\ eth_start = 0
    /\ batch_num = 0
    /\ current_batch = 0
    /\ eth_nonce = 0
    /\ factory_nonce = 0
    /\ n_fin = 0
    /\ fin_hashes = <<>>
    /\ create_hashes = <<>>
    /\ result_datas = <<>>
    /\ liabilities = <<>>
    /\ idx = 0
    /\ gas = 0
    /\ xrt = 0
    /\ create_gas = 0
    /\ prev_liabilities = None
    /\ prev_result_datas = None
    /\ total_gas = 0
    /\ total_xrt_minted = 0
    /\ total_eth_from_sells = 0
    /\ xrt_since_last_sell = 0
    /\ receipts = <<>>
    /\ lastSell = NoSell
    /\ args = None
    /\ ret = None
    /\ loop_i = 0
    /\ total_minted = 0
    /\ prof = None

PipelineStartQuotaOfOneBatch ==
    /\ mode = "pipeline" /\ pc = "start"
    /\ LET amount == StakeAmount(batch_size, chainStake, chainXrt)
       IN  \/ /\ amount = 0
              /\ UNCHANGED chainVars
              /\ pc' = "top"
           \/ /\ amount > 0
              /\ StakeOk(amount)
              /\ pc' = "top"
           \/ /\ amount > 0
              /\ StakeRaises
              /\ pc' = "crashed"
    /\ eth_start' = chainEth'
    /\ UNCHANGED <<paramVars, callVars, batch_num, current_batch, phaseVars, carryVars,
                   totalVars, receipts, lastSell>>

\* ------------------------------------------------- mine_pipeline_loop: head
\* lines 519-531: _ensure_stake(batch_size * 2), eth_start, the zeroed locals
PipelineStart ==
    /\ mode = "pipeline" /\ pc = "start"
    /\ LET amount == StakeAmount(batch_size * 2, chainStake, chainXrt)
       IN  \/ /\ amount = 0
              /\ UNCHANGED chainVars
              /\ pc' = "top"
           \/ /\ amount > 0
              /\ StakeOk(amount)
              /\ pc' = "top"
           \/ /\ amount > 0
              /\ StakeRaises
              /\ pc' = "crashed"
    /\ eth_start' = chainEth'
    /\ UNCHANGED <<paramVars, callVars, batch_num, current_batch, phaseVars, carryVars,
                   totalVars, receipts, lastSell>>

PipelineBudgetReachedSkipsDrain ==
    /\ mode = "pipeline" /\ pc = "top"
    /\ eth_start - chainEth >= EthBudget
    /\ pc' = "done"
    /\ UNCHANGED <<paramVars, callVars, chainVars, eth_start, batch_num, current_batch,
                   phaseVars, carryVars, totalVars, receipts, lastSell>>

\* lines 535-539: the budget check breaks out of the loop
PipelineBudgetReached ==
    /\ mode = "pipeline" /\ pc = "top"
    /\ eth_start - chainEth >= EthBudget
    /\ pc' = "drain"
    /\ UNCHANGED <<paramVars, callVars, chainVars, eth_start, batch_num, current_batch,
                   phaseVars, carryVars, totalVars, receipts, lastSell>>

\* lines 541-558: dynamic sizing yields 0, the iteration sleeps and continues
PipelineGasTooExpensiveCountsRound ==
    /\ mode = "pipeline" /\ pc = "top"
    /\ eth_start - chainEth < EthBudget
    /\ batch_num < MaxRounds
    /\ dynamic
    /\ \E gas_price \in 1..MaxGasPrice, eth_usd \in 1..MaxEthUsd :
          /\ EffectiveBatchSize(batch_size, MaxCostUsd, gas_price, eth_usd) = 0
          /\ current_batch' = 0
    /\ batch_num' = batch_num + 1
    /\ pc' = "top"
    /\ UNCHANGED <<paramVars, callVars, chainVars, eth_start, phaseVars, carryVars,
                   totalVars, receipts, lastSell>>

PipelineGasTooExpensive ==
    /\ mode = "pipeline" /\ pc = "top"
    /\ eth_start - chainEth < EthBudget
    /\ batch_num < MaxRounds
    /\ dynamic
    /\ \E gas_price \in 1..MaxGasPrice, eth_usd \in 1..MaxEthUsd :
          /\ EffectiveBatchSize(batch_size, MaxCostUsd, gas_price, eth_usd) = 0
          /\ current_batch' = 0
    /\ batch_num' = (batch_num + 1) - 1
    /\ pc' = "top"
    /\ UNCHANGED <<paramVars, callVars, chainVars, eth_start, phaseVars, carryVars,
                   totalVars, receipts, lastSell>>

\* lines 541-568: a round begins; the account nonce is read from the chain
PipelineBeginRound ==
    /\ mode = "pipeline" /\ pc = "top"
    /\ eth_start - chainEth < EthBudget
    /\ batch_num < MaxRounds
    /\ batch_num' = batch_num + 1
    /\ \/ /\ ~dynamic
          /\ current_batch' = batch_size
       \/ /\ dynamic
          /\ \E gas_price \in 1..MaxGasPrice, eth_usd \in 1..MaxEthUsd :
                /\ EffectiveBatchSize(batch_size, MaxCostUsd, gas_price, eth_usd) > 0
                /\ current_batch' = EffectiveBatchSize(batch_size, MaxCostUsd,
                                                       gas_price, eth_usd)
    /\ eth_nonce' = chainNonce
    /\ n_fin' = IF prev_liabilities = None THEN 0 ELSE Len(prev_liabilities)
    /\ UNCHANGED <<factory_nonce, fin_hashes, create_hashes, result_datas,
                   liabilities, idx, gas, xrt, create_gas, receipts>>
    /\ UNCHANGED lastSell
    /\ pc' = IF prev_liabilities = None THEN "create_enter" ELSE "fin_submit"
    /\ UNCHANGED <<paramVars, callVars, chainVars, eth_start, carryVars, totalVars>>

\* lines 535, 546, 568: a chain read of the loop head raises outside the inner try
PipelineHeadRaises ==
    /\ mode = "pipeline" /\ pc = "top"
    /\ batch_num < MaxRounds
    /\ pc' = "crashed"
    /\ UNCHANGED <<paramVars, callVars, chainVars, eth_start, batch_num, current_batch,
                   phaseVars, carryVars, totalVars, receipts, lastSell>>

\* ---------------------------------------------------- _build_finalize_txs
\* lines 455-472, one iteration of the for loop: sign the result, build the
\* transaction with nonce eth_nonce + i, send it.  Called from the steady-state
\* round (lines 587-589) and from the drain (lines 645-647).
FinalizeNonceNoIndex(a0, i) == a0

FinalizeNonce(a0, i) == a0 + i

BuildFinalizeTx ==
    /\ pc \in {"fin_submit", "drain_submit"}
    /\ idx < ZipLen(prev_liabilities, prev_result_datas)
    /\ fin_hashes' = Append(fin_hashes,
                            FinalizeTx(FinalizeNonce(eth_nonce, idx),
                                       prev_liabilities[idx + 1],
                                       prev_result_datas[idx + 1]))
    /\ idx' = idx + 1
    /\ UNCHANGED <<paramVars, callVars, pc, chainVars, eth_start, batch_num, current_batch,
                   eth_nonce, factory_nonce, n_fin, create_hashes, result_datas,
                   liabilities, gas, xrt, create_gas, carryVars, totalVars,
                   receipts, lastSell>>

\* the for loop of _build_finalize_txs is exhausted: return hashes
BuildFinalizeTxsReturn ==
    /\ pc \in {"fin_submit", "drain_submit"}
    /\ idx = ZipLen(prev_liabilities, prev_result_datas)
    /\ idx' = 0
    /\ gas' = 0
    /\ xrt' = 0
    /\ receipts' = <<>>
    /\ pc' = IF pc = "fin_submit" THEN "create_enter" ELSE "drain_collect"
    /\ UNCHANGED <<paramVars, callVars, chainVars, eth_start, batch_num, current_batch,
                   eth_nonce, factory_nonce, n_fin, fin_hashes, create_hashes,
                   result_datas, liabilities, create_gas, carryVars, totalVars,
                   lastSell>>

\* ------------------------------------------------------ _build_create_txs
\* lines 421-428: the factory nonce is read from the chain
BuildCreateTxsEnterKeepsNonce ==
    /\ pc = "create_enter"
    /\ idx' = 0
    /\ pc' = "create_submit"
    /\ UNCHANGED <<paramVars, callVars, chainVars, eth_start, batch_num, current_batch,
                   eth_nonce, factory_nonce, n_fin, fin_hashes, create_hashes,
                   result_datas, liabilities, gas, xrt, create_gas, carryVars,
                   totalVars, receipts, lastSell>>

BuildCreateTxsEnter ==
    /\ pc = "create_enter"
    /\ factory_nonce' = chainFactoryNonce
    /\ idx' = 0
    /\ pc' = "create_submit"
    /\ UNCHANGED <<paramVars, callVars, chainVars, eth_start, batch_num, current_batch,
                   eth_nonce, n_fin, fin_hashes, create_hashes, result_datas,
                   liabilities, gas, xrt, create_gas, carryVars, totalVars,
                   receipts, lastSell>>

\* lines 429-451, one iteration: demand and offer signed with factory_nonce + 2i
\* and + 2i + 1, transaction nonce eth_nonce + i where the caller passes
\* eth_nonce (bootstrap, line 574) or eth_nonce + n_fin (steady state, line 592)
DemandNonceNoStride(p0, i) == p0 + i

DemandNonce(p0, i) == p0 + 2 * i

OfferNonce(p0, i) == p0 + 2 * i + 1

CreateNonce(a0, i) == a0 + i

\* the eth_nonce argument of _build_create_txs: line 574 (bootstrap) passes
\* eth_nonce, lines 591-593 (steady state) pass eth_nonce + n_fin
CreateFirstNonceNoOffset(a0, prev, nfin) == a0

CreateFirstNonce(a0, prev, nfin) == IF prev = None THEN a0 ELSE a0 + nfin

BuildCreateTx ==
    /\ pc = "create_submit"
    /\ idx < current_batch
    /\ LET nonce == CreateNonce(CreateFirstNonce(eth_nonce, prev_liabilities, n_fin), idx)
       IN  /\ create_hashes' = Append(create_hashes,
                                      CreateTx(nonce, DemandNonce(factory_nonce, idx),
                                               OfferNonce(factory_nonce, idx)))
           /\ result_datas' = Append(result_datas, ResultDataAt(nonce))
    /\ idx' = idx + 1
    /\ UNCHANGED <<paramVars, callVars, pc, chainVars, eth_start, batch_num, current_batch,
                   eth_nonce, factory_nonce, n_fin, fin_hashes, liabilities, gas,
                   xrt, create_gas, carryVars, totalVars, receipts, lastSell>>

BuildCreateTxsReturnAfterFirst ==
    /\ pc = "create_submit"
    /\ idx >= Min(1, current_batch)
    /\ idx' = 0
    /\ gas' = 0
    /\ xrt' = 0
    /\ receipts' = <<>>
    /\ pc' = IF prev_liabilities = None THEN "create_collect" ELSE "fin_collect"
    /\ UNCHANGED <<paramVars, callVars, chainVars, eth_start, batch_num, current_batch,
                   eth_nonce, factory_nonce, n_fin, fin_hashes, create_hashes,
                   result_datas, liabilities, create_gas, carryVars, totalVars,
                   lastSell>>

\* the for loop of _build_create_txs is exhausted: return hashes, result_datas
BuildCreateTxsReturn ==
    /\ pc = "create_submit"
    /\ idx = current_batch
    /\ idx' = 0
    /\ gas' = 0
    /\ xrt' = 0
    /\ receipts' = <<>>
    /\ pc' = IF prev_liabilities = None THEN "create_collect" ELSE "fin_collect"
    /\ UNCHANGED <<paramVars, callVars, chainVars, eth_start, batch_num, current_batch,
                   eth_nonce, factory_nonce, n_fin, fin_hashes, create_hashes,
                   result_datas, liabilities, create_gas, carryVars, totalVars,
                   lastSell>>

\* ------------------------------------------------------------- receipts
Receipt(tx, status, gasUsed, event, logs) ==
    [kind |-> tx.kind, nonce |-> tx.nonce, status |-> status, gasUsed |-> gasUsed,
     event |-> event, logs |-> logs]

\* --------------------------------------------- _collect_finalize_receipts
\* lines 493-503, one iteration: wait for the receipt; a reverted one is skipped
\* by `continue`, a confirmed one adds its gas and its counted Transfer amounts
FinalizeGasAfterCountsReverted(g, receipt) == g + receipt.gasUsed

FinalizeGasAfter(g, receipt) ==
    IF receipt.status # 1 THEN g ELSE g + receipt.gasUsed

FinalizeXrtAfter(x, receipt) ==
    IF receipt.status # 1 THEN x ELSE x + CountedAmount(receipt.logs)

CollectFinalizeReceipt ==
    /\ pc \in {"fin_collect", "drain_collect"}
    /\ idx < Len(fin_hashes)
    /\ \E g \in GasUsedSet, status \in {0, 1}, logs \in FinalizeLogs :
          LET receipt == Receipt(fin_hashes[idx + 1], status, g, FALSE,
                                 IF status = 1 THEN logs ELSE <<>>)
          IN  /\ Mined(g, 0, 0, CreditedAmount(receipt.logs), 0)
              /\ gas' = FinalizeGasAfter(gas, receipt)
              /\ xrt' = FinalizeXrtAfter(xrt, receipt)
              /\ receipts' = Append(receipts, receipt)
    /\ idx' = idx + 1
    /\ UNCHANGED <<paramVars, callVars, pc, eth_start, batch_num, current_batch, eth_nonce,
                   factory_nonce, n_fin, fin_hashes, create_hashes, result_datas,
                   liabilities, create_gas, carryVars, totalVars, lastSell>>

\* line 504 `return gas, xrt`, then the caller's additions: lines 597-600 in a
\* steady-state round, lines 648-650 in the drain
CollectFinalizeReceiptsReturn ==
    /\ pc \in {"fin_collect", "drain_collect"}
    /\ idx = Len(fin_hashes)
    /\ total_xrt_minted' = total_xrt_minted + xrt
    /\ xrt_since_last_sell' = IF pc = "fin_collect" THEN xrt_since_last_sell + xrt
                              ELSE xrt_since_last_sell
    /\ total_gas' = total_gas + gas
    /\ IF pc = "fin_collect"
       THEN /\ ClearCollect
            /\ UNCHANGED <<eth_nonce, factory_nonce, n_fin, fin_hashes,
                           create_hashes, result_datas, liabilities, create_gas>>
            /\ pc' = "create_collect"
       ELSE /\ ClearPhase
            /\ pc' = "final_sell"
    /\ UNCHANGED <<paramVars, callVars, chainVars, eth_start, batch_num, current_batch,
                   carryVars, total_eth_from_sells, lastSell>>

\* ----------------------------------------------- _collect_create_receipts
\* lines 478-486, one iteration: a reverted receipt is skipped, a confirmed one
\* adds its gas and, when it carries a NewLiability event, its liability
CreateGasAfterCountsReverted(g, receipt) == g + receipt.gasUsed

CreateGasAfter(g, receipt) ==
    IF receipt.status # 1 THEN g ELSE g + receipt.gasUsed

CreateLiabilitiesAfterIgnoresEvent(ls, receipt) ==
    IF receipt.status # 1 THEN ls ELSE Append(ls, LiabilityAt(receipt.nonce))

CreateLiabilitiesAfter(ls, receipt) ==
    IF receipt.status # 1 THEN ls
    ELSE IF receipt.event THEN Append(ls, LiabilityAt(receipt.nonce))
    ELSE ls

CollectCreateReceipt ==
    /\ pc = "create_collect"
    /\ idx < Len(create_hashes)
    /\ \E g \in GasUsedSet, status \in {0, 1}, event \in BOOLEAN :
          LET receipt == Receipt(create_hashes[idx + 1], status, g, event, <<>>)
          IN  /\ status = 0 => ~event
              /\ Mined(g, IF status = 1 THEN 2 ELSE 0, 0, 0, 0)
              /\ gas' = CreateGasAfter(gas, receipt)
              /\ liabilities' = CreateLiabilitiesAfter(liabilities, receipt)
              /\ receipts' = Append(receipts, receipt)
    /\ idx' = idx + 1
    /\ UNCHANGED <<paramVars, callVars, pc, eth_start, batch_num, current_batch, eth_nonce,
                   factory_nonce, n_fin, fin_hashes, create_hashes, result_datas,
                   xrt, create_gas, carryVars, totalVars, lastSell>>

CollectCreateReceiptsReturnCarriesNothing ==
    /\ pc = "create_collect"
    /\ idx = Len(create_hashes)
    /\ total_gas' = total_gas + gas
    /\ IF prev_liabilities = None
       THEN /\ prev_liabilities' = <<>>
            /\ prev_result_datas' = <<>>
            /\ ClearPhase
            /\ pc' = "top"
       ELSE /\ UNCHANGED carryVars
            /\ ClearCollect
            /\ create_gas' = gas
            /\ UNCHANGED <<eth_nonce, factory_nonce, n_fin, fin_hashes,
                           create_hashes, result_datas, liabilities>>
            /\ pc' = "ensure_stake"
    /\ UNCHANGED <<paramVars, callVars, chainVars, eth_start, batch_num, current_batch,
                   total_xrt_minted, total_eth_from_sells, xrt_since_last_sell,
                   lastSell>>

\* line 487 `return liabilities, gas`, then the caller: lines 576-580 in the
\* bootstrap round (the round ends), lines 603-604 in a steady-state round
CollectCreateReceiptsReturn ==
    /\ pc = "create_collect"
    /\ idx = Len(create_hashes)
    /\ total_gas' = total_gas + gas
    /\ IF prev_liabilities = None
       THEN /\ prev_liabilities' = liabilities
            /\ prev_result_datas' = Take(result_datas, Len(liabilities))
            /\ ClearPhase
            /\ pc' = "top"
       ELSE /\ UNCHANGED carryVars
            /\ ClearCollect
            /\ create_gas' = gas
            /\ UNCHANGED <<eth_nonce, factory_nonce, n_fin, fin_hashes,
                           create_hashes, result_datas, liabilities>>
            /\ pc' = "ensure_stake"
    /\ UNCHANGED <<paramVars, callVars, chainVars, eth_start, batch_num, current_batch,
                   total_xrt_minted, total_eth_from_sells, xrt_since_last_sell,
                   lastSell>>

\* ------------------------------------------- mine_pipeline_loop: round tail
\* lines 611-615: _ensure_stake(current_batch * 2), then the carried-forward
\* lists are replaced; a raising stake() leaves for the except clause
PipelineEnsureStake ==
    /\ mode = "pipeline" /\ pc = "ensure_stake"
    /\ LET amount == StakeAmount(current_batch * 2, chainStake, chainXrt)
       IN  \/ /\ amount = 0
              /\ UNCHANGED chainVars
              /\ prev_liabilities' = liabilities
              /\ prev_result_datas' = Take(result_datas, Len(liabilities))
              /\ pc' = "autosell"
           \/ /\ amount > 0
              /\ StakeOk(amount)
              /\ prev_liabilities' = liabilities
              /\ prev_result_datas' = Take(result_datas, Len(liabilities))
              /\ pc' = "autosell"
           \/ /\ amount > 0
              /\ StakeRaises
              /\ UNCHANGED carryVars
              /\ pc' = "round_error"
    /\ UNCHANGED <<paramVars, callVars, eth_start, batch_num, current_batch, phaseVars,
                   totalVars, receipts, lastSell>>

\* the condition of the auto-sell, lines 618 and 385
SellDueStrict(acc) == acc > SellEveryXrt

SellDue(acc) == acc >= SellEveryXrt

\* the value of xrt_since_last_sell after a swap that returned, lines 625 and 392
AfterSaleKeeps(acc) == acc

AfterSale(acc) == 0

\* the value of xrt_since_last_sell after a swap that raised: the except clauses
\* of lines 627-628 and 394-395 only log
AfterFailedSaleResets(acc) == 0

AfterFailedSale(acc) == acc

PipelineAutoSellResetsWhenEmpty ==
    /\ mode = "pipeline" /\ pc = "autosell"
    /\ \/ /\ ~SellDue(xrt_since_last_sell)
          /\ UNCHANGED lastSell
          /\ UNCHANGED <<chainVars, totalVars>>
       \/ /\ SellDue(xrt_since_last_sell)
          /\ chainXrt = 0
          /\ UNCHANGED lastSell
          /\ xrt_since_last_sell' = 0
          /\ UNCHANGED <<chainVars, total_gas, total_xrt_minted, total_eth_from_sells>>
       \/ /\ SellDue(xrt_since_last_sell)
          /\ chainXrt > 0
          /\ \E eth_received \in 1..MaxQuote :
                /\ SwapOk(chainXrt, eth_received)
                /\ total_eth_from_sells' = total_eth_from_sells + eth_received
          /\ xrt_since_last_sell' = AfterSale(xrt_since_last_sell)
          /\ lastSell' = SellRecord(TRUE, chainXrt)
          /\ UNCHANGED <<total_gas, total_xrt_minted>>
       \/ /\ SellDue(xrt_since_last_sell)
          /\ chainXrt > 0
          /\ SwapRaises
          /\ xrt_since_last_sell' = AfterFailedSale(xrt_since_last_sell)
          /\ lastSell' = SellRecord(FALSE, chainXrt)
          /\ UNCHANGED <<total_gas, total_xrt_minted, total_eth_from_sells>>
    /\ pc' = "top"
    /\ ClearPhase
    /\ UNCHANGED <<paramVars, callVars, eth_start, batch_num, current_batch, carryVars>>

\* lines 617-628: the auto-sell of a steady-state round
PipelineAutoSell ==
    /\ mode = "pipeline" /\ pc = "autosell"
    /\ \/ /\ ~SellDue(xrt_since_last_sell)
          /\ UNCHANGED lastSell
          /\ UNCHANGED <<chainVars, totalVars>>
       \/ /\ SellDue(xrt_since_last_sell)
          /\ chainXrt = 0
          /\ UNCHANGED lastSell
          /\ UNCHANGED <<chainVars, totalVars>>
       \/ /\ SellDue(xrt_since_last_sell)
          /\ chainXrt > 0
          /\ \E eth_received \in 1..MaxQuote :
                /\ SwapOk(chainXrt, eth_received)
                /\ total_eth_from_sells' = total_eth_from_sells + eth_received
          /\ xrt_since_last_sell' = AfterSale(xrt_since_last_sell)
          /\ lastSell' = SellRecord(TRUE, chainXrt)
          /\ UNCHANGED <<total_gas, total_xrt_minted>>
       \/ /\ SellDue(xrt_since_last_sell)
          /\ chainXrt > 0
          /\ SwapRaises
          /\ xrt_since_last_sell' = AfterFailedSale(xrt_since_last_sell)
          /\ lastSell' = SellRecord(FALSE, chainXrt)
          /\ UNCHANGED <<total_gas, total_xrt_minted, total_eth_from_sells>>
    /\ pc' = "top"
    /\ ClearPhase
    /\ UNCHANGED <<paramVars, callVars, eth_start, batch_num, current_batch, carryVars>>

\* an RPC call inside the inner try raises (send_raw_transaction, gas_price,
\* nonceOf, wait_for_transaction_receipt timing out, balanceOf of line 619)
PipelineRoundRaises ==
    /\ mode = "pipeline"
    /\ \/ pc = "fin_submit" /\ idx < ZipLen(prev_liabilities, prev_result_datas)
       \/ pc = "create_enter"
       \/ pc = "create_submit" /\ idx < current_batch
       \/ pc = "fin_collect" /\ idx < Len(fin_hashes)
       \/ pc = "create_collect" /\ idx < Len(create_hashes)
       \/ pc = "autosell" /\ SellDue(xrt_since_last_sell)
    /\ pc' = "round_error"
    /\ UNCHANGED <<paramVars, callVars, chainVars, eth_start, batch_num, current_batch,
                   phaseVars, carryVars, totalVars, receipts, lastSell>>

PipelineRoundErrorKeepsCarry ==
    /\ mode = "pipeline" /\ pc = "round_error"
    /\ pc' = "top"
    /\ ClearPhase
    /\ UNCHANGED <<paramVars, callVars, chainVars, eth_start, batch_num, current_batch,
                   carryVars, totalVars, lastSell>>

PipelineRoundErrorUncountsRound ==
    /\ mode = "pipeline" /\ pc = "round_error"
    /\ prev_liabilities' = None
    /\ prev_result_datas' = None
    /\ batch_num' = batch_num - 1
    /\ pc' = "top"
    /\ ClearPhase
    /\ UNCHANGED <<paramVars, callVars, chainVars, eth_start, current_batch,
                   totalVars, lastSell>>

\* lines 630-635: the except clause of the round
PipelineRoundError ==
    /\ mode = "pipeline" /\ pc = "round_error"
    /\ prev_liabilities' = None
    /\ prev_result_datas' = None
    /\ pc' = "top"
    /\ ClearPhase
    /\ UNCHANGED <<paramVars, callVars, chainVars, eth_start, batch_num, current_batch,
                   totalVars, lastSell>>

\* lines 637-638: KeyboardInterrupt, raised anywhere inside the outer try
PipelineInterrupt ==
    /\ mode = "pipeline"
    /\ pc \in {"top", "fin_submit", "create_enter", "create_submit", "fin_collect",
               "create_collect", "ensure_stake", "autosell"}
    /\ pc' = "drain"
    /\ UNCHANGED lastSell
    /\ ClearPhase
    /\ UNCHANGED <<paramVars, callVars, chainVars, eth_start, batch_num, current_batch,
                   carryVars, totalVars>>

\* ------------------------------------------------ mine_pipeline_loop: drain
PipelineDrainResumesLoop ==
    /\ mode = "pipeline" /\ pc = "drain"
    /\ IF prev_liabilities # None /\ prev_liabilities # <<>>
       THEN /\ eth_nonce' = chainNonce
            /\ fin_hashes' = <<>>
            /\ idx' = 0
            /\ pc' = "drain_submit"
       ELSE /\ UNCHANGED <<eth_nonce, fin_hashes, idx>>
            /\ pc' = "top"
    /\ UNCHANGED <<paramVars, callVars, chainVars, eth_start, batch_num, current_batch,
                   factory_nonce, n_fin, create_hashes, result_datas, liabilities,
                   gas, xrt, create_gas, carryVars, totalVars, receipts, lastSell>>

\* lines 640-647: `if prev_liabilities:` is false for None and for the empty list
PipelineDrain ==
    /\ mode = "pipeline" /\ pc = "drain"
    /\ IF prev_liabilities # None /\ prev_liabilities # <<>>
       THEN /\ eth_nonce' = chainNonce
            /\ fin_hashes' = <<>>
            /\ idx' = 0
            /\ pc' = "drain_submit"
       ELSE /\ UNCHANGED <<eth_nonce, fin_hashes, idx>>
            /\ pc' = "final_sell"
    /\ UNCHANGED <<paramVars, callVars, chainVars, eth_start, batch_num, current_batch,
                   factory_nonce, n_fin, create_hashes, result_datas, liabilities,
                   gas, xrt, create_gas, carryVars, totalVars, receipts, lastSell>>

PipelineDrainRaisesSkipsSell ==
    /\ mode = "pipeline"
    /\ \/ pc = "drain" /\ prev_liabilities # None /\ prev_liabilities # <<>>
       \/ pc = "drain_submit" /\ idx < ZipLen(prev_liabilities, prev_result_datas)
       \/ pc = "drain_collect" /\ idx < Len(fin_hashes)
    /\ pc' = "done"
    /\ ClearPhase
    /\ UNCHANGED <<paramVars, callVars, chainVars, eth_start, batch_num, current_batch,
                   carryVars, totalVars, lastSell>>

\* lines 651-652: an exception of the drain finalize is logged
PipelineDrainRaises ==
    /\ mode = "pipeline"
    /\ \/ pc = "drain" /\ prev_liabilities # None /\ prev_liabilities # <<>>
       \/ pc = "drain_submit" /\ idx < ZipLen(prev_liabilities, prev_result_datas)
       \/ pc = "drain_collect" /\ idx < Len(fin_hashes)
    /\ pc' = "final_sell"
    /\ ClearPhase
    /\ UNCHANGED <<paramVars, callVars, chainVars, eth_start, batch_num, current_batch,
                   carryVars, totalVars, lastSell>>

\* lines 654-662: the final sell of the full balance; balanceOf is outside any try
PipelineFinalSell ==
    /\ mode = "pipeline" /\ pc = "final_sell"
    /\ \/ /\ chainXrt = 0
          /\ UNCHANGED lastSell
          /\ pc' = "done"
          /\ UNCHANGED <<chainVars, totalVars>>
       \/ /\ chainXrt > 0
          /\ \E eth_received \in 1..MaxQuote :
                /\ SwapOk(chainXrt, eth_received)
                /\ total_eth_from_sells' = total_eth_from_sells + eth_received
          /\ lastSell' = SellRecord(TRUE, chainXrt)
          /\ pc' = "done"
          /\ UNCHANGED <<total_gas, total_xrt_minted, xrt_since_last_sell>>
       \/ /\ chainXrt > 0
          /\ SwapRaises
          /\ lastSell' = SellRecord(FALSE, chainXrt)
          /\ pc' = "done"
          /\ UNCHANGED totalVars
       \/ /\ UNCHANGED lastSell
          /\ pc' = "crashed"
          /\ UNCHANGED <<chainVars, totalVars>>
    /\ UNCHANGED <<paramVars, callVars, eth_start, batch_num, current_batch, phaseVars,
                   carryVars, receipts>>

\* ================================================================ mine_batch
\* lines 353-360: _ensure_stake(batch_size), eth_start, the zeroed locals
BatchStart ==
    /\ mode = "batch" /\ pc = "start"
    /\ LET amount == StakeAmount(batch_size, chainStake, chainXrt)
       IN  \/ /\ amount = 0
              /\ UNCHANGED chainVars
              /\ pc' = "b_top"
           \/ /\ amount > 0
              /\ StakeOk(amount)
              /\ pc' = "b_top"
           \/ /\ amount > 0
              /\ StakeRaises
              /\ pc' = "crashed"
    /\ eth_start' = chainEth'
    /\ UNCHANGED <<paramVars, callVars, batch_num, current_batch, phaseVars, carryVars,
                   totalVars, receipts, lastSell>>

\* lines 364-368: the budget check breaks out of the loop, the summary follows
BatchBudgetReached ==
    /\ mode = "batch" /\ pc = "b_top"
    /\ eth_start - chainEth >= EthBudget
    /\ pc' = "done"
    /\ UNCHANGED <<paramVars, callVars, chainVars, eth_start, batch_num, current_batch,
                   phaseVars, carryVars, totalVars, receipts, lastSell>>

\* lines 370-374 and 248-252: a batch begins, mine_batch reads both nonces
BatchBeginRound ==
    /\ mode = "batch" /\ pc = "b_top"
    /\ eth_start - chainEth < EthBudget
    /\ batch_num < MaxRounds
    /\ batch_num' = batch_num + 1
    /\ current_batch' = batch_size
    /\ factory_nonce' = chainFactoryNonce
    /\ eth_nonce' = chainNonce
    /\ UNCHANGED lastSell
    /\ pc' = "b_create_submit"
    /\ UNCHANGED <<paramVars, callVars, chainVars, eth_start, n_fin, fin_hashes, create_hashes,
                   result_datas, liabilities, idx, gas, xrt, create_gas, carryVars,
                   totalVars, receipts>>

\* line 364: get_balance raises outside the inner try
BatchHeadRaises ==
    /\ mode = "batch" /\ pc = "b_top"
    /\ batch_num < MaxRounds
    /\ pc' = "crashed"
    /\ UNCHANGED <<paramVars, callVars, chainVars, eth_start, batch_num, current_batch,
                   phaseVars, carryVars, totalVars, receipts, lastSell>>

\* lines 257-281, one iteration of phase 1
BatchDemandNonce(p0, i) == p0 + 2 * i
BatchOfferNonce(p0, i) == p0 + 2 * i + 1
BatchCreateNonce(a0, i) == a0 + i

BatchCreateTx ==
    /\ pc = "b_create_submit"
    /\ idx < current_batch
    /\ create_hashes' = Append(create_hashes,
                               CreateTx(BatchCreateNonce(eth_nonce, idx),
                                        BatchDemandNonce(factory_nonce, idx),
                                        BatchOfferNonce(factory_nonce, idx)))
    /\ idx' = idx + 1
    /\ UNCHANGED <<paramVars, callVars, pc, chainVars, eth_start, batch_num, current_batch,
                   eth_nonce, factory_nonce, n_fin, fin_hashes, result_datas,
                   liabilities, gas, xrt, create_gas, carryVars, totalVars,
                   receipts, lastSell>>

\* lines 283-286: all create transactions are sent, the receipt loop starts
BatchCreateTxsSent ==
    /\ pc = "b_create_submit"
    /\ idx = current_batch
    /\ ClearCollect
    /\ pc' = "b_create_collect"
    /\ UNCHANGED <<paramVars, callVars, chainVars, eth_start, batch_num, current_batch,
                   eth_nonce, factory_nonce, n_fin, fin_hashes, create_hashes,
                   result_datas, liabilities, create_gas, carryVars, totalVars,
                   lastSell>>

\* lines 287-295, one iteration of the create receipt loop
BatchCreateGasAfter(g, receipt) ==
    IF receipt.status # 1 THEN g ELSE g + receipt.gasUsed

BatchCreateLiabilitiesAfter(ls, receipt) ==
    IF receipt.status # 1 THEN ls
    ELSE IF receipt.event THEN Append(ls, LiabilityAt(receipt.nonce))
    ELSE ls

BatchCollectCreateReceipt ==
    /\ pc = "b_create_collect"
    /\ idx < Len(create_hashes)
    /\ \E g \in GasUsedSet, status \in {0, 1}, event \in BOOLEAN :
          LET receipt == Receipt(create_hashes[idx + 1], status, g, event, <<>>)
          IN  /\ status = 0 => ~event
              /\ Mined(g, IF status = 1 THEN 2 ELSE 0, 0, 0, 0)
              /\ gas' = BatchCreateGasAfter(gas, receipt)
              /\ liabilities' = BatchCreateLiabilitiesAfter(liabilities, receipt)
              /\ receipts' = Append(receipts, receipt)
    /\ idx' = idx + 1
    /\ UNCHANGED <<paramVars, callVars, pc, eth_start, batch_num, current_batch, eth_nonce,
                   factory_nonce, n_fin, fin_hashes, create_hashes, result_datas,
                   xrt, create_gas, carryVars, totalVars, lastSell>>

\* lines 299-300 with 374-377: no liability was created, mine_batch returns
\* (create_gas, 0) and the loop adds it to the totals
BatchReturnNoLiabilities ==
    /\ pc = "b_create_collect"
    /\ idx = Len(create_hashes)
    /\ liabilities = <<>>
    /\ total_gas' = total_gas + gas
    /\ total_xrt_minted' = total_xrt_minted + 0
    /\ xrt_since_last_sell' = xrt_since_last_sell + 0
    /\ ClearPhase
    /\ pc' = "b_autosell"
    /\ UNCHANGED <<paramVars, callVars, chainVars, eth_start, batch_num, current_batch,
                   carryVars, total_eth_from_sells, lastSell>>

BatchFinalizeEnterAlways ==
    /\ pc = "b_create_collect"
    /\ idx = Len(create_hashes)
    /\ create_gas' = gas
    /\ eth_nonce' = chainNonce
    /\ ClearCollect
    /\ pc' = "b_fin_submit"
    /\ UNCHANGED <<paramVars, callVars, chainVars, eth_start, batch_num, current_batch,
                   factory_nonce, n_fin, fin_hashes, create_hashes, result_datas,
                   liabilities, carryVars, totalVars, lastSell>>

\* lines 302-308: _wait_for_timeout, then the account nonce is read again
BatchFinalizeEnter ==
    /\ pc = "b_create_collect"
    /\ idx = Len(create_hashes)
    /\ liabilities # <<>>
    /\ create_gas' = gas
    /\ eth_nonce' = chainNonce
    /\ ClearCollect
    /\ pc' = "b_fin_submit"
    /\ UNCHANGED <<paramVars, callVars, chainVars, eth_start, batch_num, current_batch,
                   factory_nonce, n_fin, fin_hashes, create_hashes, result_datas,
                   liabilities, carryVars, totalVars, lastSell>>

\* lines 309-322, one iteration of phase 3: a fresh result payload is drawn
BatchFinalizeNonce(a0, i) == a0 + i

BatchFinalizeTx ==
    /\ pc = "b_fin_submit"
    /\ idx < Len(liabilities)
    /\ LET nonce == BatchFinalizeNonce(eth_nonce, idx)
       IN  fin_hashes' = Append(fin_hashes,
                                FinalizeTx(nonce, liabilities[idx + 1], ResultDataAt(nonce)))
    /\ idx' = idx + 1
    /\ UNCHANGED <<paramVars, callVars, pc, chainVars, eth_start, batch_num, current_batch,
                   eth_nonce, factory_nonce, n_fin, create_hashes, result_datas,
                   liabilities, gas, xrt, create_gas, carryVars, totalVars,
                   receipts, lastSell>>

\* lines 324-327: all finalize transactions are sent, the receipt loop starts
BatchFinalizeTxsSent ==
    /\ pc = "b_fin_submit"
    /\ idx = Len(liabilities)
    /\ ClearCollect
    /\ pc' = "b_fin_collect"
    /\ UNCHANGED <<paramVars, callVars, chainVars, eth_start, batch_num, current_batch,
                   eth_nonce, factory_nonce, n_fin, fin_hashes, create_hashes,
                   result_datas, liabilities, create_gas, carryVars, totalVars,
                   lastSell>>

\* lines 328-338, one iteration of the finalize receipt loop
BatchFinalizeGasAfter(g, receipt) ==
    IF receipt.status # 1 THEN g ELSE g + receipt.gasUsed

BatchFinalizeXrtAfter(x, receipt) ==
    IF receipt.status # 1 THEN x ELSE x + CountedAmount(receipt.logs)

BatchCollectFinalizeReceipt ==
    /\ pc = "b_fin_collect"
    /\ idx < Len(fin_hashes)
    /\ \E g \in GasUsedSet, status \in {0, 1}, logs \in FinalizeLogs :
          LET receipt == Receipt(fin_hashes[idx + 1], status, g, FALSE,
                                 IF status = 1 THEN logs ELSE <<>>)
          IN  /\ Mined(g, 0, 0, CreditedAmount(receipt.logs), 0)
              /\ gas' = BatchFinalizeGasAfter(gas, receipt)
              /\ xrt' = BatchFinalizeXrtAfter(xrt, receipt)
              /\ receipts' = Append(receipts, receipt)
    /\ idx' = idx + 1
    /\ UNCHANGED <<paramVars, callVars, pc, eth_start, batch_num, current_batch, eth_nonce,
                   factory_nonce, n_fin, fin_hashes, create_hashes, result_datas,
                   liabilities, create_gas, carryVars, totalVars, lastSell>>

\* lines 340-342 with 374-377: mine_batch returns (create_gas + finalize_gas,
\* total_xrt) and the loop adds it to the totals
BatchReturn ==
    /\ pc = "b_fin_collect"
    /\ idx = Len(fin_hashes)
    /\ total_gas' = total_gas + (create_gas + gas)
    /\ total_xrt_minted' = total_xrt_minted + xrt
    /\ xrt_since_last_sell' = xrt_since_last_sell + xrt
    /\ ClearPhase
    /\ pc' = "b_autosell"
    /\ UNCHANGED <<paramVars, callVars, chainVars, eth_start, batch_num, current_batch,
                   carryVars, total_eth_from_sells, lastSell>>

\* lines 384-395: the auto-sell of the batch loop
BatchAutoSell ==
    /\ mode = "batch" /\ pc = "b_autosell"
    /\ \/ /\ ~SellDue(xrt_since_last_sell)
          /\ UNCHANGED lastSell
          /\ UNCHANGED <<chainVars, totalVars>>
       \/ /\ SellDue(xrt_since_last_sell)
          /\ chainXrt = 0
          /\ UNCHANGED lastSell
          /\ UNCHANGED <<chainVars, totalVars>>
       \/ /\ SellDue(xrt_since_last_sell)
          /\ chainXrt > 0
          /\ \E eth_received \in 1..MaxQuote :
                /\ SwapOk(chainXrt, eth_received)
                /\ total_eth_from_sells' = total_eth_from_sells + eth_received
          /\ xrt_since_last_sell' = AfterSale(xrt_since_last_sell)
          /\ lastSell' = SellRecord(TRUE, chainXrt)
          /\ UNCHANGED <<total_gas, total_xrt_minted>>
       \/ /\ SellDue(xrt_since_last_sell)
          /\ chainXrt > 0
          /\ SwapRaises
          /\ xrt_since_last_sell' = AfterFailedSale(xrt_since_last_sell)
          /\ lastSell' = SellRecord(FALSE, chainXrt)
          /\ UNCHANGED <<total_gas, total_xrt_minted, total_eth_from_sells>>
    /\ pc' = "b_top"
    /\ UNCHANGED <<paramVars, callVars, eth_start, batch_num, current_batch, phaseVars,
                   carryVars, receipts>>

\* an RPC call of mine_batch or the balanceOf of line 386 raises
BatchRoundRaises ==
    /\ mode = "batch"
    /\ \/ pc = "b_create_submit" /\ idx < current_batch
       \/ pc = "b_create_collect" /\ (idx < Len(create_hashes) \/ liabilities # <<>>)
       \/ pc = "b_fin_submit" /\ idx < Len(liabilities)
       \/ pc = "b_fin_collect" /\ idx < Len(fin_hashes)
       \/ pc = "b_autosell" /\ SellDue(xrt_since_last_sell)
    /\ pc' = "b_round_error"
    /\ UNCHANGED <<paramVars, callVars, chainVars, eth_start, batch_num, current_batch,
                   phaseVars, carryVars, totalVars, receipts, lastSell>>

\* lines 397-400: the except clause of the batch
BatchRoundError ==
    /\ mode = "batch" /\ pc = "b_round_error"
    /\ ClearPhase
    /\ pc' = "b_top"
    /\ UNCHANGED <<paramVars, callVars, chainVars, eth_start, batch_num, current_batch,
                   carryVars, totalVars, lastSell>>

\* lines 402-403: KeyboardInterrupt, raised anywhere inside the outer try;
\* the summary of lines 405-417 follows
BatchInterrupt ==
    /\ mode = "batch"
    /\ pc \in {"b_top", "b_create_submit", "b_create_collect", "b_fin_submit",
               "b_fin_collect", "b_autosell"}
    /\ pc' = "done"
    /\ UNCHANGED lastSell
    /\ ClearPhase
    /\ UNCHANGED <<paramVars, callVars, chainVars, eth_start, batch_num, current_batch,
                   carryVars, totalVars>>

NextBatch ==
    \/ BatchStart
    \/ BatchBudgetReached
    \/ BatchBeginRound
    \/ BatchHeadRaises
    \/ BatchCreateTx
    \/ BatchCreateTxsSent
    \/ BatchCollectCreateReceipt
    \/ BatchReturnNoLiabilities
    \/ BatchFinalizeEnter
    \/ BatchFinalizeTx
    \/ BatchFinalizeTxsSent
    \/ BatchCollectFinalizeReceipt
    \/ BatchReturn
    \/ BatchAutoSell
    \/ BatchRoundRaises
    \/ BatchRoundError
    \/ BatchInterrupt

NextPipeline ==
    \/ PipelineStart
    \/ PipelineBudgetReached
    \/ PipelineGasTooExpensive
    \/ PipelineBeginRound
    \/ PipelineHeadRaises
    \/ BuildFinalizeTx
    \/ BuildFinalizeTxsReturn
    \/ BuildCreateTxsEnter
    \/ BuildCreateTx
    \/ BuildCreateTxsReturn
    \/ CollectFinalizeReceipt
    \/ CollectFinalizeReceiptsReturn
    \/ CollectCreateReceipt
    \/ CollectCreateReceiptsReturn
    \/ PipelineEnsureStake
    \/ PipelineAutoSell
    \/ PipelineRoundRaises
    \/ PipelineRoundError
    \/ PipelineInterrupt
    \/ PipelineDrain
    \/ PipelineDrainRaises
    \/ PipelineFinalSell

Next == NextPipeline \/ NextBatch

InitPipeline == Init /\ mode = "pipeline"
InitBatch == Init /\ mode = "batch"

\* both loops
Spec == Init /\ [][Next]_vars
\* mine_pipeline_loop alone
SpecPipeline == InitPipeline /\ [][NextPipeline]_vars
\* mine_batch_loop alone
SpecBatch == InitBatch /\ [][NextBatch]_vars
\* mine_pipeline_loop as one thread that keeps running: every statement is
\* local or a chain call that returns or raises (wait_for_transaction_receipt
\* has a timeout), so a step that can be taken is taken
SpecPipelineFair == InitPipeline /\ [][NextPipeline]_vars /\ WF_vars(NextPipeline)

TypeOK ==
    /\ pc \in {"start", "top", "fin_submit", "create_enter", "create_submit",
               "fin_collect", "create_collect", "ensure_stake", "autosell",
               "round_error", "drain", "drain_submit", "drain_collect",
               "final_sell", "done", "crashed", "b_top", "b_create_submit",
               "b_create_collect", "b_fin_submit", "b_fin_collect", "b_autosell",
               "b_round_error", "call", "returned", "demand", "offer",
               "m_top", "m_gate", "m_once", "m_finalize", "interrupted"}
    /\ mode \in {"pipeline", "batch", "sizing", "single", "signer"}
    /\ chainXrt >= 0 /\ chainStake >= 0

\* ===================================================================== claims
InPipelineRound ==
    mode = "pipeline" /\ pc \in {"fin_submit", "create_enter", "create_submit",
                                 "fin_collect", "create_collect", "ensure_stake"}

InDrain == mode = "pipeline" /\ pc \in {"drain_submit", "drain_collect"}

InBatchCreate == mode = "batch" /\ pc \in {"b_create_submit", "b_create_collect"}

InBatchFinalize == mode = "batch" /\ pc \in {"b_fin_submit", "b_fin_collect"}

\* the nonces of the transactions of a list are a0, a0 + 1, ... in list order
Sequential(hashes, a0) ==
    \A k \in 1..Len(hashes) : hashes[k].nonce = a0 + (k - 1)

\* C1: in every phase the i-th submitted transaction carries the account nonce
\* a0 + i, a0 being the nonce the phase starts from: the finalize and the create
\* phase of mine_batch, _build_finalize_txs (round and drain) and
\* _build_create_txs (whose a0 is the argument its caller passes).
C1_PhaseNoncesSequential ==
    /\ (InPipelineRound \/ InDrain) => Sequential(fin_hashes, eth_nonce)
    /\ InPipelineRound =>
          Sequential(create_hashes,
                     IF prev_liabilities = None THEN eth_nonce ELSE eth_nonce + n_fin)
    /\ InBatchCreate => Sequential(create_hashes, eth_nonce)
    /\ InBatchFinalize => Sequential(fin_hashes, eth_nonce)

C1_Witness ==
    /\ mode = "pipeline" /\ pc = "fin_collect"
    /\ Len(fin_hashes) = 2 /\ Len(create_hashes) = 2
    /\ eth_nonce > 0

\* C2: in a create phase started from factory nonce p0 the i-th liability's
\* demand is signed with p0 + 2i and its offer with p0 + 2i + 1, and the pairs of
\* two liabilities of the round are disjoint.
C2_FactoryNoncePairs ==
    (InPipelineRound \/ InBatchCreate) =>
        /\ \A k \in 1..Len(create_hashes) :
              /\ create_hashes[k].demand_nonce = factory_nonce + 2 * (k - 1)
              /\ create_hashes[k].offer_nonce = factory_nonce + 2 * (k - 1) + 1
        /\ \A j, k \in 1..Len(create_hashes) :
              j # k => {create_hashes[j].demand_nonce, create_hashes[j].offer_nonce}
                       \cap {create_hashes[k].demand_nonce, create_hashes[k].offer_nonce}
                       = {}

C2_Witness ==
    /\ mode = "pipeline" /\ pc = "create_collect"
    /\ Len(create_hashes) = 2
    /\ factory_nonce > 0

SteadyBurstSent ==
    /\ mode = "pipeline"
    /\ pc \in {"fin_collect", "create_collect", "ensure_stake"}
    /\ prev_liabilities # None

\* C3: once the burst of a steady-state round with k carried-forward liabilities
\* and batch B is sent, it holds exactly k + B transactions; the finalize ones
\* carry a0 .. a0 + k - 1 and the create ones a0 + k .. a0 + k + B - 1, where a0
\* is the account nonce of the chain at round start.
C3_SteadyBurstNonces ==
    SteadyBurstSent =>
        LET k == Len(prev_liabilities)
            B == current_batch
        IN  /\ Len(fin_hashes) = k
            /\ Len(create_hashes) = B
            /\ Len(fin_hashes) + Len(create_hashes) = k + B
            /\ Sequential(fin_hashes, eth_nonce)
            /\ Sequential(create_hashes, eth_nonce + k)
            /\ \A i \in 1..k, j \in 1..B : fin_hashes[i].nonce < create_hashes[j].nonce
            /\ (pc = "fin_collect" /\ idx = 0) => eth_nonce = chainNonce

C3_Witness ==
    /\ SteadyBurstSent
    /\ Len(prev_liabilities) = 2 /\ current_batch = 2
    /\ Len(fin_hashes) + Len(create_hashes) = 4

\* ------------------------------------------------- receipts of a collect loop
RECURSIVE ConfirmedGas(_)
ConfirmedGas(rs) ==
    IF rs = <<>> THEN 0
    ELSE (IF Head(rs).status = 1 THEN Head(rs).gasUsed ELSE 0) + ConfirmedGas(Tail(rs))

RECURSIVE ConfirmedCount(_)
ConfirmedCount(rs) ==
    IF rs = <<>> THEN 0
    ELSE (IF Head(rs).status = 1 THEN 1 ELSE 0) + ConfirmedCount(Tail(rs))

RECURSIVE EventLiabilities(_)
EventLiabilities(rs) ==
    IF rs = <<>> THEN <<>>
    ELSE (IF Head(rs).status = 1 /\ Head(rs).event
          THEN <<Head(rs).nonce + 1>> ELSE <<>>) \o EventLiabilities(Tail(rs))

\* Transfer events of the token contract, whatever their destination
TokenTransfers(logs) ==
    SumSeq([k \in 1..Len(logs) |->
              IF logs[k].address = "xrt" /\ logs[k].topic0 = "Transfer"
              THEN logs[k].data ELSE 0])

\* Transfer events of the token contract whose destination is this account
TokenTransfersToMe(logs) ==
    SumSeq([k \in 1..Len(logs) |->
              IF logs[k].address = "xrt" /\ logs[k].topic0 = "Transfer"
                 /\ logs[k].to = "me"
              THEN logs[k].data ELSE 0])

RECURSIVE ConfirmedTransfers(_)
ConfirmedTransfers(rs) ==
    IF rs = <<>> THEN 0
    ELSE (IF Head(rs).status = 1 THEN TokenTransfers(Head(rs).logs) ELSE 0)
         + ConfirmedTransfers(Tail(rs))

RECURSIVE ConfirmedTransfersToMe(_)
ConfirmedTransfersToMe(rs) ==
    IF rs = <<>> THEN 0
    ELSE (IF Head(rs).status = 1 THEN TokenTransfersToMe(Head(rs).logs) ELSE 0)
         + ConfirmedTransfersToMe(Tail(rs))

InCreateCollect == pc \in {"create_collect", "b_create_collect"}

InFinalizeCollect == pc \in {"fin_collect", "drain_collect", "b_fin_collect"}

\* C4 (as amended): in a create receipt loop a reverted receipt is skipped and
\* the loop goes on; the confirmed list holds, in submission order, the
\* liabilities of the confirmed receipts that carry a NewLiability event (n - 1
\* entries when one reverts and every other receipt carries the event), and the
\* gas is the sum of gasUsed over the confirmed receipts only.
C4_CreateRevertIsLocal ==
    InCreateCollect =>
        /\ Len(receipts) = idx
        /\ liabilities = EventLiabilities(receipts)
        /\ gas = ConfirmedGas(receipts)
        /\ (\A k \in 1..Len(receipts) : receipts[k].status = 1 => receipts[k].event)
              => Len(liabilities) = ConfirmedCount(receipts)

C4_Witness ==
    /\ pc = "create_collect" /\ idx = 2 /\ Len(create_hashes) = 2
    /\ receipts[1].status = 0
    /\ receipts[2].status = 1 /\ receipts[2].event
    /\ Len(liabilities) = 1
    /\ gas = receipts[2].gasUsed

\* C4 as stated: the confirmed set has one entry per non-reverted transaction.
C4_OneLiabilityPerConfirmed ==
    InCreateCollect => Len(liabilities) = ConfirmedCount(receipts)

\* C5 as stated: the minted amount of a finalize receipt loop is the sum, over
\* the confirmed receipts, of the Transfer events of the token contract whose
\* destination is this account.
C5_MintedCountsOnlyOwnTransfers ==
    InFinalizeCollect => xrt = ConfirmedTransfersToMe(receipts)

\* C6: in a finalize receipt loop a reverted receipt is skipped and the loop
\* goes on: every transaction sent so far has its receipt collected, and gas and
\* minted amount are sums over the confirmed receipts only.
C6_FinalizeRevertIsLocal ==
    InFinalizeCollect =>
        /\ Len(receipts) = idx
        /\ gas = ConfirmedGas(receipts)
        /\ xrt = ConfirmedTransfers(receipts)

C6_Witness ==
    /\ pc = "fin_collect" /\ idx = 2 /\ Len(fin_hashes) = 2
    /\ receipts[1].status = 0
    /\ receipts[2].status = 1
    /\ gas = receipts[2].gasUsed
    /\ xrt > 0

\* ------------------------------------------------------------------ sales
\* this step called swap_xrt_to_eth
SaleAttempted == lastSell'.seq = lastSell.seq + 1

SaleSucceeded == SaleAttempted /\ lastSell'.ok

SaleFailed == SaleAttempted /\ ~lastSell'.ok

\* this step is the auto-sell block of a round
AutoSellStep == pc \in {"autosell", "b_autosell"} /\ pc' \in {"top", "b_top"}

\* C7 (as amended): in both loops the mint accumulator is never negative, only
\* a successful sale lowers it, a successful auto-sell of a round sets it to
\* zero, a failed sale leaves it, and the final sell of the pipeline drain
\* leaves it whether it succeeds or not.
C7_MintAccumulator ==
    [][ /\ xrt_since_last_sell >= 0 /\ xrt_since_last_sell' >= 0
        /\ xrt_since_last_sell' < xrt_since_last_sell => SaleSucceeded
        /\ (SaleSucceeded /\ AutoSellStep) => xrt_since_last_sell' = 0
        /\ SaleFailed => xrt_since_last_sell' = xrt_since_last_sell
        /\ (SaleAttempted /\ pc = "final_sell")
              => xrt_since_last_sell' = xrt_since_last_sell ]_vars

C7_Witness ==
    /\ pc \in {"top", "b_top"}
    /\ lastSell.seq > 0 /\ lastSell.ok
    /\ xrt_since_last_sell = 0
    /\ total_xrt_minted >= SellEveryXrt

\* C7 as stated: the accumulator is zero immediately after every sale that
\* succeeds.
C7_ZeroAfterEverySale ==
    [][ SaleSucceeded => xrt_since_last_sell' = 0 ]_vars

\* C8 (as amended): the minted amount a finalize phase reports is added to the
\* accumulator; when a round reaches its auto-sell with the accumulator at or
\* above the threshold and a token balance above zero, swap_xrt_to_eth is called
\* with that full balance, and on success the accumulator is reset to zero.
C8_AutoSellTriggered ==
    [][ /\ (pc = "fin_collect" /\ pc' = "create_collect")
              => xrt_since_last_sell' = xrt_since_last_sell + xrt
        /\ (pc = "b_fin_collect" /\ pc' = "b_autosell")
              => xrt_since_last_sell' = xrt_since_last_sell + xrt
        /\ (AutoSellStep /\ xrt_since_last_sell >= SellEveryXrt /\ chainXrt > 0)
              => /\ SaleAttempted
                 /\ lastSell'.amount = chainXrt
                 /\ lastSell'.ok => (xrt_since_last_sell' = 0 /\ chainXrt' = 0) ]_vars

C8_Witness ==
    /\ pc \in {"top", "b_top"}
    /\ lastSell.seq > 0 /\ lastSell.ok
    /\ lastSell.amount > total_xrt_minted
    /\ total_xrt_minted >= SellEveryXrt
    /\ xrt_since_last_sell = 0

\* C8 as stated: whenever a round reaches its auto-sell with the accumulator at
\* or above the threshold, a sell is triggered.
C8_SellWheneverDue ==
    [][ (AutoSellStep /\ xrt_since_last_sell >= SellEveryXrt) => SaleAttempted ]_vars

\* the last call of swap_xrt_to_eth raised
LastSaleFailed == lastSell.seq > 0 /\ ~lastSell.ok

\* C9 (as amended): a failed auto-sell of a pipeline round is not fatal (the
\* loop goes on to its next iteration), leaves the accumulator and the
\* carried-forward lists as they are, and a later steady-state round that
\* reaches its auto-sell with the accumulator at or above the threshold and a
\* token balance above zero calls the swap again.
C9_FailedSellIsLocal ==
    [][ /\ (SaleFailed /\ pc = "autosell")
              => /\ pc' = "top"
                 /\ xrt_since_last_sell' = xrt_since_last_sell
                 /\ prev_liabilities' = prev_liabilities
                 /\ prev_result_datas' = prev_result_datas
                 /\ prev_liabilities' # None
        /\ (LastSaleFailed /\ pc = "autosell" /\ pc' = "top"
            /\ xrt_since_last_sell >= SellEveryXrt /\ chainXrt > 0)
              => SaleAttempted ]_vars

C9_Witness ==
    /\ mode = "pipeline" /\ pc = "top"
    /\ lastSell.seq >= 2
    /\ batch_num = 3
    /\ xrt_since_last_sell >= SellEveryXrt
    /\ total_xrt_minted = xrt_since_last_sell
    /\ prev_liabilities # None /\ prev_liabilities # <<>>

\* a round of the pipeline loop ends and the loop returns to its head
RoundEnds == pc \in {"autosell", "round_error", "create_collect"} /\ pc' = "top"

\* C9 as stated: after a failed sell, the next round in which the accumulator
\* is at or above the threshold attempts the sell again.
C9_NextDueRoundRetries ==
    [][ (LastSaleFailed /\ RoundEnds /\ xrt_since_last_sell >= SellEveryXrt)
            => SaleAttempted ]_vars

\* C10: the except clause of a pipeline round empties the carried-forward lists
\* and returns to the loop head; the lists stay empty at the loop head, and the
\* next round that starts from there is a create-only (bootstrap) round.
C10_RoundErrorResetsToBootstrap ==
    [][ /\ pc = "round_error"
              => /\ prev_liabilities' = None /\ prev_result_datas' = None
                 /\ pc' = "top"
        /\ (pc = "top" /\ pc' = "top") => UNCHANGED carryVars
        /\ (pc = "top" /\ prev_liabilities = None /\ pc' \notin {"top", "drain", "crashed"})
              => /\ pc' = "create_enter"
                 /\ n_fin' = 0 /\ fin_hashes' = <<>>
                 /\ prev_liabilities' = None ]_vars

C10_Witness ==
    /\ mode = "pipeline" /\ pc = "create_submit"
    /\ batch_num = 3
    /\ prev_liabilities = None
    /\ total_xrt_minted > 0

\* ------------------------------------------------------ pipeline scheduler
\* a step of the loop head that starts a round
RoundStarts == pc = "top" /\ pc' \in {"create_enter", "fin_submit"}

\* C11: with no carried-forward list (None) the pipeline loop starts a
\* create-only round: it submits no finalize transaction and exactly
\* current_batch create transactions, and when the round completes it carries
\* forward exactly the liabilities that round confirmed; the next round that
\* starts is then a steady-state round.
C11_BootstrapRound ==
    [][ /\ (RoundStarts /\ prev_liabilities = None)
              => (pc' = "create_enter" /\ n_fin' = 0 /\ fin_hashes' = <<>>)
        /\ (prev_liabilities = None /\ pc = "create_submit" /\ pc' = "create_collect")
              => /\ Len(create_hashes) = current_batch /\ current_batch > 0
                 /\ fin_hashes = <<>>
        /\ (prev_liabilities = None /\ pc = "create_collect" /\ pc' = "top")
              => /\ Len(receipts) = current_batch
                 /\ fin_hashes = <<>>
                 /\ prev_liabilities' = EventLiabilities(receipts)
                 /\ Len(prev_result_datas') = Len(prev_liabilities')
        /\ (RoundStarts /\ prev_liabilities # None) => pc' = "fin_submit" ]_vars

C11_Witness ==
    /\ mode = "pipeline" /\ pc = "fin_submit"
    /\ batch_num = 2
    /\ Len(prev_liabilities) = 2
    /\ n_fin = 2
    /\ total_xrt_minted = 0

\* the liabilities of a list, as a set
Members(ls) == {ls[k] : k \in 1..Len(ls)}

\* C12: in a steady-state round that completes, one finalize transaction is
\* submitted for every carried-forward liability, in order, and at the end of
\* the round the carried-forward list becomes exactly the list of liabilities
\* confirmed by this round's create receipts; none of the liabilities carried
\* into the round is carried out of it.
C12_SteadyRoundReplacesCarry ==
    [][ /\ (pc = "fin_submit" /\ pc' = "create_enter")
              => /\ Len(fin_hashes) = Len(prev_liabilities)
                 /\ \A k \in 1..Len(prev_liabilities) :
                       fin_hashes[k].liability = prev_liabilities[k]
        /\ (pc = "create_collect" /\ pc' = "ensure_stake")
              => /\ Len(receipts) = current_batch
                 /\ liabilities = EventLiabilities(receipts)
        /\ (pc = "ensure_stake" /\ pc' = "autosell")
              => /\ prev_liabilities' = liabilities
                 /\ Len(prev_result_datas') = Len(liabilities)
                 /\ Members(prev_liabilities) \cap Members(prev_liabilities') = {}
                 /\ Members(prev_liabilities)
                       = {fin_hashes[k].liability : k \in 1..Len(fin_hashes)} ]_vars

C12_Witness ==
    /\ mode = "pipeline" /\ pc = "autosell"
    /\ Len(fin_hashes) = 2
    /\ Len(prev_liabilities) = 2
    /\ prev_liabilities = liabilities
    /\ \A k \in 1..2 : fin_hashes[k].liability \notin Members(prev_liabilities)

InDrainFinalize == pc \in {"drain", "drain_submit", "drain_collect"}

\* the carried-forward list is neither None nor empty
Carrying == prev_liabilities # None /\ prev_liabilities # <<>>

\* C13: after the loop is left the pipeline drains: with a non-empty
\* carried-forward list it submits one finalize transaction per carried
\* liability and collects every receipt, then it goes to the final sell, which
\* calls the swap once with the full token balance, then it terminates; an
\* exception of the drain finalize still leads to the final sell, and an
\* exception of the swap still leads to termination.
C13_DrainThenFinalSell ==
    [][ /\ (pc = "drain" /\ ~Carrying) => pc' = "final_sell"
        /\ (pc = "drain" /\ Carrying) => pc' \in {"drain_submit", "final_sell"}
        /\ InDrainFinalize => pc' \in {"drain_submit", "drain_collect", "final_sell"}
        /\ (pc = "drain_submit" /\ pc' = "drain_collect")
              => /\ Len(fin_hashes) = Len(prev_liabilities)
                 /\ \A k \in 1..Len(prev_liabilities) :
                       fin_hashes[k].liability = prev_liabilities[k]
        /\ (pc = "drain_collect" /\ pc' = "final_sell" /\ total_gas' # total_gas)
              => Len(receipts) = Len(fin_hashes)
        /\ pc = "final_sell"
              => /\ pc' \in {"done", "crashed"}
                 /\ (pc' = "done" /\ chainXrt > 0)
                       => (SaleAttempted /\ lastSell'.amount = chainXrt)
                 /\ SaleSucceeded => chainXrt' = 0
        /\ pc \notin {"done", "crashed"} ]_vars

C13_Witness ==
    /\ mode = "pipeline" /\ pc = "done"
    /\ lastSell.seq = 1 /\ lastSell.ok
    /\ chainXrt = 0
    /\ xrt_since_last_sell > 0
    /\ total_xrt_minted > xrt_since_last_sell

\* the liabilities the carried-forward list holds
Carried == IF prev_liabilities = None THEN {} ELSE Members(prev_liabilities)

\* C14 as stated: the pipeline loop is left for the drain only from the loop
\* head, between two rounds, and every liability confirmed by a create receipt
\* and not yet given a finalize transaction is in the list the drain finalizes.
C14_InterruptOnlyBetweenRounds ==
    [][ (pc # "drain" /\ pc' = "drain")
            => /\ pc = "top"
               /\ Members(liabilities) \subseteq Carried ]_vars

\* a step that leaves the batch loop on a KeyboardInterrupt
BatchInterrupted ==
    /\ mode = "batch" /\ pc' = "done"
    /\ \/ pc \in {"b_create_submit", "b_create_collect", "b_fin_submit",
                  "b_fin_collect", "b_autosell"}
       \/ pc = "b_top" /\ eth_start - chainEth < EthBudget

\* C15 as stated: when the batch loop is left on an interrupt, every liability
\* confirmed by the interrupted batch's create phase has a finalize transaction
\* submitted, and a token balance above zero is sold, before the loop exits.
C15_BatchInterruptDrains ==
    [][ BatchInterrupted
            => /\ Members(liabilities)
                     \subseteq {fin_hashes[k].liability : k \in 1..Len(fin_hashes)}
               /\ chainXrt > 0 => SaleAttempted ]_vars

\* native currency spent since the start of the loop
EthSpent == eth_start - chainEth

AtLoopHead == pc \in {"top", "b_top"}

\* C16: a round starts only from the loop head and only with the spend below
\* the budget; at the loop head with the spend at or above the budget the loop
\* is left (to the drain in pipeline mode, to the summary in batch mode) and no
\* create transaction is submitted from then on, while the pipeline drain
\* still finalizes a non-empty carried-forward list and reaches the final sell.
C16_BudgetStopsNewRounds ==
    [][ /\ (pc' \in {"create_enter", "create_submit", "fin_submit", "b_create_submit"}
            /\ pc' # pc /\ pc \notin {"fin_submit", "create_enter"})
              => (AtLoopHead /\ EthSpent < EthBudget)
        /\ (AtLoopHead /\ EthSpent >= EthBudget)
              => /\ mode = "pipeline" => pc' \in {"drain", "crashed"}
                 /\ mode = "batch" => pc' \in {"done", "crashed"}
                 /\ create_hashes' = <<>> /\ UNCHANGED chainVars
        /\ (InDrainFinalize \/ pc = "final_sell")
              => (create_hashes' = <<>> /\ chainFactoryNonce' = chainFactoryNonce)
        /\ (pc = "drain" /\ Carrying) => pc' \in {"drain_submit", "final_sell"}
        /\ (pc = "drain_submit" /\ pc' = "drain_collect")
              => Members(prev_liabilities)
                    = {fin_hashes[k].liability : k \in 1..Len(fin_hashes)}
        /\ InDrainFinalize => pc' \in {"drain_submit", "drain_collect", "final_sell"} ]_vars

C16_Witness ==
    /\ mode = "pipeline" /\ pc = "drain_collect"
    /\ batch_num = 2
    /\ total_gas >= EthBudget
    /\ idx = Len(fin_hashes) /\ idx = 2
    /\ fin_hashes[1].liability = 5
    /\ lastSell.seq = 1 /\ lastSell.ok /\ xrt_since_last_sell = 0
    /\ xrt > 0

\* gas and minted amount of the receipts a round has collected as confirmed
\* and not yet added to the running totals
PendingGas == gas + (IF mode = "batch" THEN create_gas ELSE 0)

PendingXrt == xrt

\* C17 as stated: when a round ends in a round-level exception, the gas and the
\* minted amount of the receipts it had collected as confirmed are in the
\* running totals, so nothing collected is pending when the handler is entered.
C17_NoAggregateLost ==
    [][ pc' \in {"round_error", "b_round_error"}
            => (PendingGas = 0 /\ PendingXrt = 0) ]_vars

\* the quota each loop asks for before its first round
StartQuota == IF mode = "pipeline" THEN 2 * batch_size ELSE batch_size

\* C18: before its first round mine_pipeline_loop tops the stake up for quota
\* 2 x batch_size and mine_batch_loop for quota batch_size; after a
\* steady-state round the pipeline tops it up for 2 x current_batch; the stake
\* changes nowhere else.
C18_StakeQuotaOfMode ==
    [][ /\ (pc = "start" /\ pc' \in {"top", "b_top"})
              => /\ chainStake' = chainStake + StakeAmount(StartQuota, chainStake, chainXrt)
                 /\ chainXrt' = chainXrt - StakeAmount(StartQuota, chainStake, chainXrt)
        /\ (pc = "start" /\ pc' = "crashed")
              => StakeAmount(StartQuota, chainStake, chainXrt) > 0
        /\ (pc = "ensure_stake" /\ pc' = "autosell")
              => chainStake' = chainStake
                                 + StakeAmount(2 * current_batch, chainStake, chainXrt)
        /\ (pc = "ensure_stake" /\ pc' = "round_error")
              => StakeAmount(2 * current_batch, chainStake, chainXrt) > 0
        /\ chainStake' # chainStake => pc \in {"start", "ensure_stake"} ]_vars

C18_Witness ==
    /\ mode = "pipeline" /\ pc = "top" /\ batch_num = 0
    /\ batch_size = 2
    /\ chainStake = 3 * MinimalStake
    /\ chainXrt = 0
    /\ chainNonce = 1

\* the quota a submitting round needs: the round size in batch mode, twice the
\* batch size in pipeline mode
RoundQuota == IF mode = "pipeline" THEN 2 * batch_size ELSE current_batch

\* C19 as stated: whenever a round is submitting its transactions, the stake
\* of the account is at least the quota the round needs times the minimal
\* stake.
C19_StakeCoversQuota ==
    pc \in {"fin_submit", "create_submit", "b_create_submit", "b_fin_submit"}
        => chainStake >= RoundQuota * MinimalStake

\* a step that runs _ensure_stake, and the quota it is called with
InEnsureStake == pc \in {"start", "ensure_stake"}

EnsureQuota == IF pc = "start" THEN StartQuota ELSE 2 * current_batch

Shortfall == EnsureQuota * MinimalStake - chainStake

EnsureStakeReturns == InEnsureStake /\ pc' \in {"top", "b_top", "autosell"}

EnsureStakeRaises == InEnsureStake /\ pc' \in {"crashed", "round_error"}

\* C20 (as amended): _ensure_stake(q) with stake >= q x minimalStake submits no
\* transaction and changes nothing; otherwise, with a token balance above zero
\* it submits one staking transaction for min(shortfall, balance), and with a
\* balance of zero it submits nothing; the staked amount never exceeds the
\* balance, and _ensure_stake raises only when the staking transaction it
\* submitted fails, never because the balance is insufficient.
C20_EnsureStakeClamps ==
    [][ /\ (EnsureStakeReturns /\ Shortfall <= 0) => UNCHANGED chainVars
        /\ (EnsureStakeReturns /\ Shortfall > 0 /\ chainXrt > 0)
              => /\ chainStake' = chainStake + Min(Shortfall, chainXrt)
                 /\ chainXrt' = chainXrt - Min(Shortfall, chainXrt)
                 /\ chainNonce' = chainNonce + 1
        /\ (EnsureStakeReturns /\ Shortfall > 0 /\ chainXrt = 0) => UNCHANGED chainVars
        /\ InEnsureStake => (chainStake' - chainStake <= chainXrt /\ chainXrt' >= 0)
        /\ EnsureStakeRaises => (Shortfall > 0 /\ chainXrt > 0) ]_vars

C20_Witness ==
    /\ mode = "batch" /\ pc = "b_top" /\ batch_num = 0
    /\ chainStake = 1 /\ chainStake < batch_size * MinimalStake
    /\ chainXrt = 0
    /\ chainNonce = 1

\* C20 as stated: whenever the stake is below q x minimalStake, _ensure_stake
\* submits a staking transaction for min(shortfall, balance).
C20_AlwaysSubmitsWhenShort ==
    [][ (EnsureStakeReturns /\ Shortfall > 0)
            => /\ chainNonce' = chainNonce + 1
               /\ chainStake' = chainStake + Min(Shortfall, chainXrt) ]_vars

\* ============================================ functions modelled on their own
\* the variables of the two batch loops, which the specifications below leave
\* at rest
roundVars == <<batch_size, dynamic, eth_start, batch_num, current_batch,
               phaseVars, carryVars, totalVars, receipts, lastSell>>

loopVars == <<roundVars, chainVars>>

LoopsAtRest ==
    /\ batch_size = MaxBatch /\ dynamic = FALSE
    /\ chainNonce = 0 /\ chainFactoryNonce = 0 /\ chainStake = 0
    /\ chainXrt = 0 /\ chainEth = 0
    /\ eth_start = 0 /\ batch_num = 0 /\ current_batch = 0
    /\ eth_nonce = 0 /\ factory_nonce = 0 /\ n_fin = 0
    /\ fin_hashes = <<>> /\ create_hashes = <<>> /\ result_datas = <<>>
    /\ liabilities = <<>> /\ idx = 0 /\ gas = 0 /\ xrt = 0 /\ create_gas = 0
    /\ prev_liabilities = None /\ prev_result_datas = None
    /\ total_gas = 0 /\ total_xrt_minted = 0 /\ total_eth_from_sells = 0
    /\ xrt_since_last_sell = 0
    /\ receipts = <<>> /\ lastSell = NoSell

\* ---------------------------------------------------- _effective_batch_size
\* the arguments max_batch and max_cost_usd, and what the two chain reads of
\* lines 86-87 return
SizingArgs ==
    [max_batch : 0..(MaxBatch + 1), max_cost_usd : 0..MaxCostArg,
     gas_price : 0..MaxGasPrice, eth_usd : 1..MaxEthUsd]

InitSizing ==
    /\ mode = "sizing" /\ pc = "call"
    /\ args \in SizingArgs
    /\ ret = <<>>
    /\ loop_i = 0 /\ total_minted = 0 /\ prof = None
    /\ LoopsAtRest

\* one call of _effective_batch_size, lines 82-92: the result is recorded next
\* to the gas price it was computed at
SizingResult(a) ==
    [gas_price |-> a.gas_price,
     effective |-> EffectiveBatchSize(a.max_batch, a.max_cost_usd, a.gas_price,
                                      a.eth_usd)]

EffectiveBatchSizeCall ==
    /\ mode = "sizing" /\ pc = "call"
    /\ ret' = Append(ret, SizingResult(args))
    /\ pc' = "returned"
    /\ UNCHANGED <<mode, args, loop_i, total_minted, prof, loopVars>>

\* line 546 in the next iteration of the loop: the same arguments, the gas
\* price the chain reports then
EffectiveBatchSizeNextCall ==
    /\ mode = "sizing" /\ pc = "returned"
    /\ Len(ret) < MaxCalls
    /\ \E gas_price \in 0..MaxGasPrice :
          /\ args' = [args EXCEPT !.gas_price = gas_price]
          /\ ret' = Append(ret, SizingResult(args'))
    /\ UNCHANGED <<mode, pc, loop_i, total_minted, prof, loopVars>>

NextSizing == EffectiveBatchSizeCall \/ EffectiveBatchSizeNextCall

SpecSizing == InitSizing /\ [][NextSizing]_vars

\* the cost of one liability for the arguments of the last call
SizingCost == args.gas_price * args.eth_usd

LastEffective == ret[Len(ret)].effective

\* C21: _effective_batch_size returns max_batch when the cost of one liability
\* is at or below max_cost_usd, and otherwise the floor of
\* max_batch x max_cost_usd / cost; the result lies in [0, max_batch], and for a
\* positive cost it is 0 exactly when max_batch x max_cost_usd / cost is below 1.
C21_EffectiveBatchSize ==
    (mode = "sizing" /\ pc = "returned") =>
        /\ SizingCost <= args.max_cost_usd => LastEffective = args.max_batch
        /\ SizingCost > args.max_cost_usd
              => /\ LastEffective * SizingCost <= args.max_batch * args.max_cost_usd
                 /\ args.max_batch * args.max_cost_usd < (LastEffective + 1) * SizingCost
        /\ LastEffective >= 0 /\ LastEffective <= args.max_batch
        /\ SizingCost > 0
              => (LastEffective = 0 <=> args.max_batch * args.max_cost_usd < SizingCost)

C21_Witness ==
    /\ mode = "sizing" /\ pc = "returned"
    /\ SizingCost > args.max_cost_usd
    /\ LastEffective > 0 /\ LastEffective < args.max_batch
    /\ LastEffective * SizingCost < args.max_batch * args.max_cost_usd

\* C22: for the same max_batch, max_cost_usd and conversion rate, of two calls
\* of _effective_batch_size the one at the higher gas price does not return
\* the larger result.
C22_MonotoneInGasPrice ==
    mode = "sizing" =>
        \A a, b \in 1..Len(ret) :
            ret[a].gas_price <= ret[b].gas_price
                => ret[b].effective <= ret[a].effective

C22_Witness ==
    /\ mode = "sizing" /\ Len(ret) = 2
    /\ ret[1].gas_price < ret[2].gas_price
    /\ ret[2].effective < ret[1].effective
    /\ ret[2].effective > 0

\* ------------------------------------------------- check_profitability, mine_loop
\* ESTIMATED_GAS_PER_CYCLE, line 12, in units of 550 000 gas
EstimatedGasPerCycle == 2

\* the thresholds a caller passes as min_margin, in percent
MinMargins == {0, 50, 100}

\* prof["margin"] is the quotient num / den, kept exact
Margin(profit, gas_cost) ==
    IF gas_cost > 0 THEN [num |-> profit * 100, den |-> gas_cost]
    ELSE [num |-> 0, den |-> 1]

\* check_profitability, lines 94-117: the fields of the returned dict that
\* are not the same value in other units
CheckProfitability(gas_price, xrt_value) ==
    LET gas_cost == gas_price * EstimatedGasPerCycle
        profit == xrt_value - gas_cost
    IN  [gas_cost |-> gas_cost, xrt_value |-> xrt_value, profit |-> profit,
         profitable |-> profit > 0, margin |-> Margin(profit, gas_cost)]

\* prof["margin"] < min_margin
MarginBelow(p, min_margin) == p.margin.num < min_margin * p.margin.den

\* mine_once, lines 777-783: the data of the first log that passes the test
RECURSIVE FirstCountedAmount(_)
FirstCountedAmount(logs) ==
    IF logs = <<>> THEN 0
    ELSE IF CountedLog(Head(logs)) THEN Head(logs).data
    ELSE FirstCountedAmount(Tail(logs))

\* count is <<>> for None and <<n>> for the number n
Counts == {<<>>, <<0>>, <<1>>, <<2>>}

MineLoopArgs == [count : Counts, min_margin : MinMargins, force : BOOLEAN]

InitMineLoop ==
    /\ mode = "single" /\ pc = "m_top"
    /\ args \in MineLoopArgs
    /\ ret = None
    /\ loop_i = 0 /\ total_minted = 0 /\ prof = None
    /\ LoopsAtRest

\* line 798: count is None or i < count
LoopCondition == IF args.count = <<>> THEN TRUE ELSE loop_i < args.count[1]

\* line 798: the loop condition fails
MineLoopReturn ==
    /\ mode = "single" /\ pc = "m_top"
    /\ ~LoopCondition
    /\ pc' = "done"
    /\ UNCHANGED <<mode, args, ret, loop_i, total_minted, prof, loopVars>>

\* line 799 with force: no check
MineLoopForce ==
    /\ mode = "single" /\ pc = "m_top"
    /\ LoopCondition
    /\ args.force
    /\ pc' = "m_once"
    /\ UNCHANGED <<mode, args, ret, loop_i, total_minted, prof, loopVars>>

\* line 800
MineLoopCheck ==
    /\ mode = "single" /\ pc = "m_top"
    /\ LoopCondition
    /\ ~args.force
    /\ \E gas_price \in 0..MaxGasPrice, xrt_value \in 0..MaxXrtValue :
          prof' = CheckProfitability(gas_price, xrt_value)
    /\ pc' = "m_gate"
    /\ UNCHANGED <<mode, args, ret, loop_i, total_minted, loopVars>>

\* line 800: a chain read of check_profitability raises, outside the inner try
MineLoopCheckRaises ==
    /\ mode = "single" /\ pc = "m_top"
    /\ LoopCondition
    /\ ~args.force
    /\ pc' = "crashed"
    /\ UNCHANGED <<mode, args, ret, loop_i, total_minted, prof, loopVars>>

\* lines 801-806: sleep and continue
MineLoopWait ==
    /\ mode = "single" /\ pc = "m_gate"
    /\ ~prof.profitable \/ MarginBelow(prof, args.min_margin)
    /\ pc' = "m_top"
    /\ UNCHANGED <<mode, args, ret, loop_i, total_minted, prof, loopVars>>

MineLoopProceedIgnoresMargin ==
    /\ mode = "single" /\ pc = "m_gate"
    /\ prof.profitable
    /\ pc' = "m_once"
    /\ UNCHANGED <<mode, args, ret, loop_i, total_minted, prof, loopVars>>

\* line 801 false: on to mine_once
MineLoopProceed ==
    /\ mode = "single" /\ pc = "m_gate"
    /\ ~(~prof.profitable \/ MarginBelow(prof, args.min_margin))
    /\ pc' = "m_once"
    /\ UNCHANGED <<mode, args, ret, loop_i, total_minted, prof, loopVars>>

\* mine_once, lines 738-764: createLiability through _send_tx is confirmed and
\* carries the NewLiability event
MineOnceCreate ==
    /\ mode = "single" /\ pc = "m_once"
    /\ chainNonce < MaxSingleTxs
    /\ \E g \in GasUsedSet : Mined(g, 2, 0, 0, 0)
    /\ ret' = <<LiabilityAt(chainFactoryNonce)>>
    /\ pc' = "m_finalize"
    /\ UNCHANGED <<mode, args, loop_i, total_minted, prof, roundVars>>

\* mine_once raises before the finalize: a chain read or the submission fails,
\* createLiability reverts (line 149), or its receipt has no event (761-762);
\* lines 812-814 catch it
MineOnceCreateRaises ==
    /\ mode = "single" /\ pc = "m_once"
    /\ chainNonce < MaxSingleTxs
    /\ \/ UNCHANGED chainVars
       \/ \E g \in GasUsedSet : Mined(g, 0, 0, 0, 0)
    /\ pc' = "m_top"
    /\ UNCHANGED <<mode, args, ret, loop_i, total_minted, prof, roundVars>>

\* mine_once, lines 766-789, and lines 809-811
MineOnceFinalize ==
    /\ mode = "single" /\ pc = "m_finalize"
    /\ \E g \in GasUsedSet, logs \in FinalizeLogs :
          /\ Mined(g, 0, 0, CreditedAmount(logs), 0)
          /\ ret' = <<ret[1], FirstCountedAmount(logs)>>
    /\ total_minted' = total_minted + ret'[2]
    /\ loop_i' = loop_i + 1
    /\ pc' = "m_top"
    /\ UNCHANGED <<mode, args, prof, roundVars>>

MineOnceFinalizeRaisesCountsCycle ==
    /\ mode = "single" /\ pc = "m_finalize"
    /\ \/ UNCHANGED chainVars
       \/ \E g \in GasUsedSet : Mined(g, 0, 0, 0, 0)
    /\ ret' = None
    /\ loop_i' = loop_i + 1
    /\ pc' = "m_top"
    /\ UNCHANGED <<mode, args, total_minted, prof, roundVars>>

\* finalizeLiability raises in _send_tx; lines 812-814 catch it
MineOnceFinalizeRaises ==
    /\ mode = "single" /\ pc = "m_finalize"
    /\ \/ UNCHANGED chainVars
       \/ \E g \in GasUsedSet : Mined(g, 0, 0, 0, 0)
    /\ ret' = None
    /\ pc' = "m_top"
    /\ UNCHANGED <<mode, args, loop_i, total_minted, prof, roundVars>>

\* lines 815-816: KeyboardInterrupt anywhere in the loop
MineLoopInterrupt ==
    /\ mode = "single" /\ pc \in {"m_top", "m_gate", "m_once", "m_finalize"}
    /\ ret' = None
    /\ pc' = "interrupted"
    /\ UNCHANGED <<mode, args, loop_i, total_minted, prof, loopVars>>

NextMineLoop ==
    \/ MineLoopReturn \/ MineLoopForce \/ MineLoopCheck \/ MineLoopCheckRaises
    \/ MineLoopWait \/ MineLoopProceed
    \/ MineOnceCreate \/ MineOnceCreateRaises
    \/ MineOnceFinalize \/ MineOnceFinalizeRaises
    \/ MineLoopInterrupt

SpecMineLoop == InitMineLoop /\ [][NextMineLoop]_vars

\* the gate of mine_loop has its check's result in hand
AtGate == mode = "single" /\ pc = "m_gate"

\* C23: when the token value equals the gas cost (profit 0, margin 0) and the
\* threshold is 0, check_profitability reports profitable and the loop goes on
\* to mine_once.
C23_BoundaryInclusive ==
    [][(AtGate /\ prof.profit = 0 /\ args.min_margin = 0 /\ pc' # "interrupted")
          => (prof.profitable /\ pc' = "m_once")]_vars

\* C24: in mine_loop without force, an iteration whose check gives a margin
\* below min_margin submits nothing: the step from the gate leaves the chain and
\* the counter i as they are and leads back to the loop head (or out, on an
\* interrupt), and mine_once is never entered with such a check in hand.
C24_BelowMarginWaits ==
    [][/\ (AtGate /\ MarginBelow(prof, args.min_margin))
            => /\ chainVars' = chainVars
               /\ loop_i' = loop_i /\ total_minted' = total_minted
               /\ pc' \in {"m_top", "interrupted"}
       /\ (mode = "single" /\ ~args.force /\ pc' \in {"m_once", "m_finalize"})
            => ~MarginBelow(prof', args.min_margin)]_vars

\* after a wait at a positive margin below the threshold, with one liability
\* mined in an earlier iteration
C24_Witness ==
    /\ mode = "single" /\ pc = "m_top" /\ ~args.force
    /\ loop_i = 1 /\ chainNonce = 2
    /\ prof.profitable /\ MarginBelow(prof, args.min_margin)

\* a step that waits for one receipt, and a step that submits one transaction
ReceiptAwaited == Len(receipts') > Len(receipts)

TxSubmitted ==
    Len(create_hashes') > Len(create_hashes) \/ Len(fin_hashes') > Len(fin_hashes)

\* the transactions the current phase or burst has to submit
CreatesDue == current_batch

FinalizesDue ==
    IF mode = "batch" THEN Len(liabilities)
    ELSE IF prev_liabilities = None THEN 0
    ELSE Min(Len(prev_liabilities), Len(prev_result_datas))

\* C25: a receipt is awaited only when every transaction of its phase has been
\* submitted (in a steady-state burst: every finalize and every create of the
\* burst), and no transaction is submitted once a receipt of the phase has
\* been collected.
C25_SubmitAllBeforeAwaiting ==
    [][/\ (ReceiptAwaited /\ pc \in {"create_collect", "b_create_collect"})
            => Len(create_hashes) = CreatesDue
       /\ (ReceiptAwaited /\ pc \in {"fin_collect", "create_collect"})
            => Len(fin_hashes) = FinalizesDue
       /\ (ReceiptAwaited /\ pc = "fin_collect")
            => Len(create_hashes) = CreatesDue
       /\ (ReceiptAwaited /\ pc \in {"drain_collect", "b_fin_collect"})
            => Len(fin_hashes) = FinalizesDue
       /\ ReceiptAwaited
            => pc \in {"create_collect", "fin_collect", "drain_collect",
                       "b_create_collect", "b_fin_collect"}
       /\ TxSubmitted => receipts = <<>>]_vars

\* the first receipt of a steady-state burst of two finalizes and two creates
C25_Witness ==
    /\ mode = "pipeline" /\ pc = "fin_collect"
    /\ Len(receipts) = 1
    /\ Len(fin_hashes) = 2 /\ Len(create_hashes) = 2

\* ------------------------------------------------------------------ signer.py
\* An address string is its value and the case of its hex digits; bytes are
\* sequences of digits below ByteBase; the 32-byte words and the 20-byte
\* addresses are IntWidth digits wide.
Addr(val, case) == [val |-> val, case |-> case]

ZERO_ADDRESS == Addr(0, "lower")

\* int.to_bytes(width, "big")
RECURSIVE ToBytes(_, _)
ToBytes(n, width) ==
    IF width = 0 THEN <<>>
    ELSE Append(ToBytes(n \div ByteBase, width - 1), n % ByteBase)

\* int.from_bytes(b, "big")
RECURSIVE FromBytes(_)
FromBytes(b) ==
    IF b = <<>> THEN 0
    ELSE FromBytes(SubSeq(b, 1, Len(b) - 1)) * ByteBase + b[Len(b)]

AddrBytesKeepsCase(addr) ==
    ToBytes(addr.val, IntWidth) \o (IF addr.case = "lower" THEN <<>> ELSE <<0>>)

\* _addr_bytes, lines 11-12: lower() drops the case
AddrBytes(addr) == ToBytes(addr.val, IntWidth)

\* Web3.to_checksum_address
ToChecksumAddress(addr) == Addr(addr.val, "checksum")

EncodePackedOfferLighthouseFirst(model, objective, token, cost, validator, lighthouse, lighthouse_fee, deadline, nonce, sender) ==
    model \o objective \o AddrBytes(token) \o ToBytes(cost, IntWidth)
        \o AddrBytes(lighthouse) \o AddrBytes(validator)
        \o ToBytes(lighthouse_fee, IntWidth) \o ToBytes(deadline, IntWidth)
        \o ToBytes(nonce, IntWidth) \o AddrBytes(sender)

\* _encode_packed_demand, lines 15-39
EncodePackedDemand(model, objective, token, cost, lighthouse, validator, validator_fee, deadline, nonce, sender) ==
    model \o objective \o AddrBytes(token) \o ToBytes(cost, IntWidth)
        \o AddrBytes(lighthouse) \o AddrBytes(validator)
        \o ToBytes(validator_fee, IntWidth) \o ToBytes(deadline, IntWidth)
        \o ToBytes(nonce, IntWidth) \o AddrBytes(sender)

\* _encode_packed_offer, lines 42-66
EncodePackedOffer(model, objective, token, cost, validator, lighthouse, lighthouse_fee, deadline, nonce, sender) ==
    model \o objective \o AddrBytes(token) \o ToBytes(cost, IntWidth)
        \o AddrBytes(validator) \o AddrBytes(lighthouse)
        \o ToBytes(lighthouse_fee, IntWidth) \o ToBytes(deadline, IntWidth)
        \o ToBytes(nonce, IntWidth) \o AddrBytes(sender)

\* Web3.keccak, taken as collision free, and encode_defunct(primitive=...)
Keccak(msg_bytes) == <<"keccak256", msg_bytes>>

EncodeDefunct(msg_hash) == <<"\\x19Ethereum Signed Message:\\n32", msg_hash>>

\* the address of a private key
PrivateKeys == {"k1", "k2"}

AddressOf(private_key) ==
    IF private_key = "k1" THEN Addr(1, "checksum") ELSE Addr(2, "checksum")

\* Account.sign_message: the signature binds the key's address to the message
SignMessage(signable, private_key) ==
    [signer |-> AddressOf(private_key).val, signed |-> signable]

\* Account.recover_message / ecrecover: the signer for the signed message, an
\* address of no known key for any other message
Recover(signable, signature) ==
    IF signature.signed = signable THEN Addr(signature.signer, "checksum")
    ELSE Addr(ByteBase * ByteBase - 1, "checksum")

\* _sign_hash, lines 82-87
SignHash(msg_bytes, private_key) ==
    SignMessage(EncodeDefunct(Keccak(msg_bytes)), private_key)

\* eth_abi.encode and its inverse, one head word or one length-prefixed tail
\* per parameter
AbiWord(type, value) ==
    IF type = "address" THEN [type |-> type, word |-> ToBytes(value.val, IntWidth)]
    ELSE IF type = "uint256" THEN [type |-> type, word |-> ToBytes(value, IntWidth)]
    ELSE [type |-> type, word |-> value]

AbiValue(w) ==
    IF w.type = "address" THEN Addr(FromBytes(w.word), "lower")
    ELSE IF w.type = "uint256" THEN FromBytes(w.word)
    ELSE w.word

Encode(types, values) == [i \in 1..Len(types) |-> AbiWord(types[i], values[i])]

Decode(data) == [i \in 1..Len(data) |-> AbiValue(data[i])]

\* lines 116-120 and 157-161
MessageTypes ==
    <<"bytes", "bytes", "address", "uint256", "address", "address", "uint256",
      "uint256", "address", "bytes">>

BuildDemandFeeInCostSlot(model, objective, token, cost, lighthouse, validator, validator_fee, deadline, nonce, sender, private_key) ==
    LET signature ==
            SignHash(EncodePackedDemand(model, objective, token, cost, lighthouse,
                                        validator, validator_fee, deadline, nonce,
                                        sender),
                     private_key)
    IN  Encode(MessageTypes,
               <<model, objective, ToChecksumAddress(token), validator_fee,
                 ToChecksumAddress(lighthouse), ToChecksumAddress(validator),
                 validator_fee, deadline, ToChecksumAddress(sender), signature>>)

\* build_demand, lines 90-128
BuildDemand(model, objective, token, cost, lighthouse, validator, validator_fee, deadline, nonce, sender, private_key) ==
    LET signature ==
            SignHash(EncodePackedDemand(model, objective, token, cost, lighthouse,
                                        validator, validator_fee, deadline, nonce,
                                        sender),
                     private_key)
    IN  Encode(MessageTypes,
               <<model, objective, ToChecksumAddress(token), cost,
                 ToChecksumAddress(lighthouse), ToChecksumAddress(validator),
                 validator_fee, deadline, ToChecksumAddress(sender), signature>>)

\* build_offer, lines 131-169
BuildOffer(model, objective, token, cost, validator, lighthouse, lighthouse_fee, deadline, nonce, sender, private_key) ==
    LET signature ==
            SignHash(EncodePackedOffer(model, objective, token, cost, validator,
                                       lighthouse, lighthouse_fee, deadline, nonce,
                                       sender),
                     private_key)
    IN  Encode(MessageTypes,
               <<model, objective, ToChecksumAddress(token), cost,
                 ToChecksumAddress(validator), ToChecksumAddress(lighthouse),
                 lighthouse_fee, deadline, ToChecksumAddress(sender), signature>>)

\* the arguments: blobs of two lengths, addresses in either case, a lighthouse
\* that is or is not the validator, a sender that is or is not the key's address
Blobs == {<<1>>, <<2, 1>>}

SignerArgs ==
    [model : Blobs, objective : Blobs,
     token : {Addr(3, "checksum")},
     cost : 0..MaxAmount,
     lighthouse : {Addr(1, "lower"), Addr(1, "checksum"), Addr(2, "checksum")},
     validator : {ZERO_ADDRESS, Addr(1, "lower")},
     fee : 0..MaxAmount,
     deadline : {ByteBase + 1},
     nonce : 0..MaxSignNonce,
     sender : {Addr(1, "lower"), Addr(1, "checksum"), Addr(2, "checksum")},
     private_key : PrivateKeys]

InitSigner ==
    /\ mode = "signer" /\ pc = "call"
    /\ args \in SignerArgs
    /\ ret = None
    /\ loop_i = 0 /\ total_minted = 0 /\ prof = None
    /\ LoopsAtRest

\* signer.build_demand(...) as mine_once calls it, lines 742-746
CallBuildDemand ==
    /\ mode = "signer" /\ pc = "call"
    /\ ret' = BuildDemand(args.model, args.objective, args.token, args.cost,
                          args.lighthouse, args.validator, args.fee,
                          args.deadline, args.nonce, args.sender, args.private_key)
    /\ pc' = "demand"
    /\ UNCHANGED <<mode, args, loop_i, total_minted, prof, loopVars>>

\* signer.build_offer(...), lines 747-751
CallBuildOffer ==
    /\ mode = "signer" /\ pc = "call"
    /\ ret' = BuildOffer(args.model, args.objective, args.token, args.cost,
                         args.validator, args.lighthouse, args.fee,
                         args.deadline, args.nonce, args.sender, args.private_key)
    /\ pc' = "offer"
    /\ UNCHANGED <<mode, args, loop_i, total_minted, prof, loopVars>>

NextSigner == CallBuildDemand \/ CallBuildOffer

SpecSigner == InitSigner /\ [][NextSigner]_vars
\* a message has been built and returned
Built == mode = "signer" /\ pc \in {"demand", "offer"}

\* the packed bytes of the two roles for the field values of the call
DemandPayload ==
    EncodePackedDemand(args.model, args.objective, args.token, args.cost,
                       args.lighthouse, args.validator, args.fee, args.deadline,
                       args.nonce, args.sender)

OfferPayload ==
    EncodePackedOffer(args.model, args.objective, args.token, args.cost,
                      args.validator, args.lighthouse, args.fee, args.deadline,
                      args.nonce, args.sender)

OwnPayload == IF pc = "demand" THEN DemandPayload ELSE OfferPayload

OtherPayload == IF pc = "demand" THEN OfferPayload ELSE DemandPayload

\* the signature carried by the returned message, and whether it verifies
\* for the signing key over a payload
ReturnedSignature == Decode(ret)[10]

ValidOver(payload) ==
    Recover(EncodeDefunct(Keccak(payload)), ReturnedSignature).val
        = AddressOf(args.private_key).val

Decoded == Decode(ret)

\* the packed bytes rebuilt from the decoded fields and a sequence number
Reconstructed(nonce) ==
    IF pc = "demand"
    THEN EncodePackedDemand(Decoded[1], Decoded[2], Decoded[3], Decoded[4],
                            Decoded[5], Decoded[6], Decoded[7], Decoded[8],
                            nonce, Decoded[9])
    ELSE EncodePackedOffer(Decoded[1], Decoded[2], Decoded[3], Decoded[4],
                           Decoded[5], Decoded[6], Decoded[7], Decoded[8],
                           nonce, Decoded[9])

\* the sequence numbers that, with the decoded fields, give the signed bytes
FittingNonces == {n \in 0..MaxSignNonce : ValidOver(Reconstructed(n))}

\* C27 as stated: the returned encoding carries the ten packed fields and the
\* signature, so the decoded fields alone determine the signed packed bytes.
C27_TenFieldsAndSignature ==
    Built =>
        /\ Len(ret) = 11
        /\ \A n \in 0..MaxSignNonce : ValidOver(Reconstructed(n))

\* C27: the returned encoding carries nine of the ten packed fields (the two
\* blobs, token, cost, the two role addresses in the role's order, fee,
\* deadline, sender) and the signature, not the sequence number; the signed
\* packed bytes are rebuilt from the decoded fields together with the sequence
\* number of the call, and with no other sequence number.
C27_NineFieldsAndSignature ==
    Built =>
        /\ Len(ret) = 10
        /\ Reconstructed(args.nonce) = OwnPayload
        /\ FittingNonces = {args.nonce}

C27_Witness ==
    /\ mode = "signer" /\ pc = "demand"
    /\ args.nonce = 1 /\ args.cost = 0 /\ args.fee = 1
    /\ args.lighthouse = Addr(2, "checksum") /\ args.validator = ZERO_ADDRESS
    /\ FittingNonces = {1}

\* C28: for a demand and for an offer, recovering the signer of the returned
\* signature over the hash of the packed payload rebuilt from the decoded
\* fields (and the sequence number of the call) yields the address of the
\* signing key, which is the sender whenever the caller passes its own address
\* as sender together with its own key.
C28_RoundTripRecoversSender ==
    Built =>
        LET recovered == Recover(EncodeDefunct(Keccak(Reconstructed(args.nonce))),
                                 Decoded[10])
        IN  /\ recovered.val = AddressOf(args.private_key).val
            /\ args.sender.val = AddressOf(args.private_key).val
                  => recovered.val = Decoded[9].val /\ recovered.val = args.sender.val

\* an offer signed with the key of the sender, whose address was passed in
\* lower case
C28_Witness ==
    /\ mode = "signer" /\ pc = "offer"
    /\ args.sender = Addr(1, "lower") /\ args.private_key = "k1"
    /\ args.lighthouse = Addr(1, "checksum")
    /\ Recover(EncodeDefunct(Keccak(Reconstructed(args.nonce))), Decoded[10]).val = 1
\* the first transaction of a burst, of a create phase and of a finalize phase
\* of mine_batch is submitted in this step
FirstOfBurst == fin_hashes = <<>> /\ create_hashes = <<>> /\ TxSubmitted

FirstCreate == create_hashes = <<>> /\ Len(create_hashes') = 1

FirstBatchFinalize ==
    mode = "batch" /\ fin_hashes = <<>> /\ Len(fin_hashes') = 1

FirstSubmitted ==
    IF Len(fin_hashes') > Len(fin_hashes) THEN fin_hashes'[1] ELSE create_hashes'[1]

\* C29: the first transaction of every round (and of every finalize phase of
\* mine_batch, and of the drain) carries the account nonce the chain reports
\* at that time, and the first demand of every create phase carries the
\* factory nonce the chain reports at that time: both are read anew, whatever
\* an earlier round computed.
C29_NoncesReadFresh ==
    [][/\ FirstOfBurst => FirstSubmitted.nonce = chainNonce
       /\ FirstCreate => create_hashes'[1].demand_nonce = chainFactoryNonce
       /\ FirstBatchFinalize => fin_hashes'[1].nonce = chainNonce]_vars

\* the third round of a pipeline run starts its burst at the chain's nonces,
\* after two rounds that moved both
C29_Witness ==
    /\ mode = "pipeline" /\ pc = "create_submit" /\ batch_num = 3
    /\ Len(fin_hashes) = 2 /\ Len(create_hashes) = 1
    /\ fin_hashes[1].nonce = chainNonce /\ chainNonce >= 4
    /\ create_hashes[1].demand_nonce = chainFactoryNonce /\ chainFactoryNonce >= 4
\* an iteration of the pipeline loop that ends in `continue` at line 558
PauseStep == mode = "pipeline" /\ pc = "top" /\ pc' = "top"

\* C30: with dynamic sizing on and an effective batch size of 0 the iteration
\* pauses: nothing is submitted, the chain, the carried-forward lists, the
\* totals, the accumulator and the round counter stay as they are, and the
\* loop is back at its head, where the budget is checked before the size; a
\* round is started only with a size above 0, and pauses happen only with
\* dynamic sizing on.
C30_PauseChangesNothing ==
    [][/\ PauseStep
            => /\ dynamic /\ current_batch' = 0
               /\ UNCHANGED <<chainVars, carryVars, totalVars, batch_num, eth_start,
                              fin_hashes, create_hashes, receipts, lastSell>>
       /\ (mode = "pipeline" /\ RoundStarts)
            => /\ current_batch' > 0 /\ current_batch' <= batch_size
               /\ ~dynamic => current_batch' = batch_size
       /\ (mode = "pipeline" /\ pc = "top" /\ eth_start - chainEth >= EthBudget)
            => ~PauseStep /\ ~RoundStarts]_vars

\* a pause after the first round: the round counter still reads 1 and the
\* liabilities of that round are still carried
C30_Witness ==
    /\ mode = "pipeline" /\ pc = "top" /\ dynamic
    /\ current_batch = 0 /\ batch_num = 1
    /\ prev_liabilities # None /\ Len(prev_liabilities) = 2
    /\ total_gas > 0
\* an exception leaves the round's try block, and its handler runs
RoundRaises == mode = "pipeline" /\ pc # "round_error" /\ pc' = "round_error"

RoundHandled == mode = "pipeline" /\ pc = "round_error"

\* C31: the exception handler of a pipeline round clears the carried-forward
\* liabilities and result payloads and nothing else of the loop's state: total
\* gas, total minted, the accumulator, the total received from sells and the
\* round counter keep the values they had when the exception was raised.
C31_RoundErrorKeepsTotals ==
    [][/\ RoundRaises => UNCHANGED <<totalVars, batch_num, carryVars>>
       /\ RoundHandled
            => /\ UNCHANGED <<total_gas, total_xrt_minted, xrt_since_last_sell,
                              total_eth_from_sells, batch_num, eth_start, chainVars,
                              lastSell>>
               /\ prev_liabilities' = None /\ prev_result_datas' = None
               /\ pc' = "top"]_vars

\* the second round failed after its finalize receipts were added to the
\* totals: they are kept, the round counter reads 2, nothing is carried
C31_Witness ==
    /\ mode = "pipeline" /\ pc = "top" /\ batch_num = 2
    /\ prev_liabilities = None
    /\ total_xrt_minted > 0 /\ xrt_since_last_sell > 0 /\ total_gas > 0
\* the liabilities that have a finalize transaction submitted in the burst
\* under way
FinalizeSubmitted == {fin_hashes[k].liability : k \in 1..Len(fin_hashes)}

\* C32 as stated: no liability has a finalize transaction submitted for it more
\* than once: a burst holds one finalize transaction per liability, and when a
\* burst is over, however it ends (receipts collected, exception, interrupt),
\* none of its liabilities is left in the list that the next burst or the drain
\* finalizes.
C32_FinalizeAtMostOnce ==
    [][mode = "pipeline"
          => /\ Cardinality(FinalizeSubmitted) = Len(fin_hashes)
             /\ (fin_hashes # <<>> /\ fin_hashes' = <<>>)
                   => (IF prev_liabilities' = None THEN {} ELSE Members(prev_liabilities'))
                          \cap FinalizeSubmitted = {}]_vars
\* the payload drawn in the loop iteration of _build_create_txs that sent
\* the create transaction of this liability
OwnResultData(liability_addr, result_data) ==
    \E nonce \in 0..(liability_addr + 1) :
        LiabilityAt(nonce) = liability_addr /\ ResultDataAt(nonce) = result_data

\* C33 as stated: every carried-forward liability is paired with, and finalized
\* with, the result payload generated for its own create transaction, also when
\* an earlier create transaction of the burst reverted or carried no event.
C33_OwnResultPayload ==
    mode = "pipeline" =>
        /\ Carrying
              => \A k \in 1..Len(prev_liabilities) :
                    /\ k <= Len(prev_result_datas)
                    /\ OwnResultData(prev_liabilities[k], prev_result_datas[k])
        /\ \A k \in 1..Len(fin_hashes) :
              OwnResultData(fin_hashes[k].liability, fin_hashes[k].result_data)
\* the finalize burst of the carried-forward list has been sent in full
FinalizeBurstSent ==
    /\ mode = "pipeline" /\ prev_liabilities # None
    /\ \/ pc \in {"fin_collect", "drain_collect"}
       \/ pc = "create_submit"

\* C34: whenever the carried-forward liability list is set, the carried-forward
\* list of result payloads has the same length, and a finalize burst sent in
\* full holds exactly one finalize transaction per carried-forward liability,
\* in order.
C34_CarriedListsSameLength ==
    /\ (mode = "pipeline" /\ prev_liabilities # None)
          => /\ prev_result_datas # None
             /\ Len(prev_result_datas) = Len(prev_liabilities)
    /\ FinalizeBurstSent
          => /\ Len(fin_hashes) = Len(prev_liabilities)
             /\ \A k \in 1..Len(prev_liabilities) :
                   fin_hashes[k].liability = prev_liabilities[k]

\* a burst of two creates confirmed one liability: one payload is carried with
\* it and one finalize transaction is sent in the next round
C34_Witness ==
    /\ mode = "pipeline" /\ pc = "fin_collect" /\ ~dynamic /\ batch_num = 2
    /\ Len(prev_liabilities) = 1 /\ Len(prev_result_datas) = 1
    /\ Len(fin_hashes) = 1
\* a create receipt is collected in this step, and the receipt it is
CreateReceiptCollected == InCreateCollect /\ ReceiptAwaited

CollectedReceipt == receipts'[Len(receipts')]

\* the confirmed receipts that carry the NewLiability event
RECURSIVE EventCount(_)
EventCount(rs) ==
    IF rs = <<>> THEN 0
    ELSE (IF Head(rs).status = 1 /\ Head(rs).event THEN 1 ELSE 0) + EventCount(Tail(rs))

\* C35: a confirmed create receipt without a NewLiability event adds its gas
\* to the phase's gas and no liability to the confirmed list; the list has one
\* entry per confirmed receipt that carries the event, which is fewer than the
\* confirmed receipts when such a receipt was collected.
C35_ConfirmedWithoutEvent ==
    [][/\ (CreateReceiptCollected /\ CollectedReceipt.status = 1
              /\ ~CollectedReceipt.event)
            => /\ gas' = gas + CollectedReceipt.gasUsed
               /\ liabilities' = liabilities
       /\ CreateReceiptCollected
            => /\ Len(liabilities') = EventCount(receipts')
               /\ Len(liabilities') <= ConfirmedCount(receipts')
               /\ (\E k \in 1..Len(receipts') :
                      receipts'[k].status = 1 /\ ~receipts'[k].event)
                     => Len(liabilities') < ConfirmedCount(receipts')]_vars

\* two confirmed create receipts, the first without the event
C35_Witness ==
    /\ pc = "create_collect" /\ Len(receipts) = 2
    /\ receipts[1].status = 1 /\ ~receipts[1].event
    /\ receipts[2].status = 1 /\ receipts[2].event
    /\ Len(liabilities) = 1
    /\ gas = receipts[1].gasUsed + receipts[2].gasUsed
\* C36: an auto-sell submits a sale only with a token balance above 0; with
\* the accumulator at or above the threshold and a balance of 0 the auto-sell
\* block submits no transaction, and the accumulator, the totals and the chain
\* stay as they are.
C36_NoSaleWithoutBalance ==
    [][/\ (AutoSellStep /\ SaleAttempted) => (chainXrt > 0 /\ lastSell'.amount = chainXrt)
       /\ (AutoSellStep /\ xrt_since_last_sell >= SellEveryXrt /\ chainXrt = 0)
            => /\ ~SaleAttempted
               /\ UNCHANGED <<chainVars, totalVars, lastSell>>]_vars

\* a steady-state round ended with the accumulator at the threshold and the
\* balance spent on a stake top-up: no sale was ever attempted
C36_Witness ==
    /\ mode = "pipeline" /\ pc = "top" /\ batch_num = 2
    /\ prev_liabilities # None
    /\ xrt_since_last_sell >= SellEveryXrt /\ chainXrt = 0 /\ chainStake > 0
    /\ lastSell.seq = 0
\* the create phase of mine_batch is over and mine_batch goes on or returns
CreatePhaseLeft ==
    mode = "batch" /\ pc = "b_create_collect" /\ pc' \in {"b_autosell", "b_fin_submit"}

\* C37: when the create phase of mine_batch confirms no liability, mine_batch
\* returns (create gas, 0) at once: no quota wait, no finalize transaction;
\* otherwise it goes on to the quota wait and the finalize phase, finalize
\* transactions are submitted only there, and the phase submits exactly one
\* per confirmed liability, in order.
C37_FinalizeSkippedWhenNoneCreated ==
    [][/\ (CreatePhaseLeft /\ liabilities = <<>>)
            => /\ pc' = "b_autosell"
               /\ total_gas' = total_gas + gas
               /\ total_xrt_minted' = total_xrt_minted
               /\ xrt_since_last_sell' = xrt_since_last_sell
               /\ fin_hashes = <<>> /\ UNCHANGED chainVars
       /\ (CreatePhaseLeft /\ liabilities # <<>>)
            => (pc' = "b_fin_submit" /\ UNCHANGED <<totalVars, liabilities>>)
       /\ (mode = "batch" /\ Len(fin_hashes') > Len(fin_hashes))
            => (pc = "b_fin_submit" /\ liabilities # <<>>)
       /\ (mode = "batch" /\ pc = "b_fin_submit" /\ pc' = "b_fin_collect")
            => /\ Len(fin_hashes) = Len(liabilities)
               /\ \A k \in 1..Len(liabilities) :
                     fin_hashes[k].liability = liabilities[k]]_vars

\* a batch whose two creates were mined and confirmed no liability: its gas is
\* in the total, no finalize transaction was mined
C37_Witness ==
    /\ mode = "batch" /\ pc = "b_autosell" /\ batch_num = 1
    /\ chainNonce = 2 /\ total_gas > 0 /\ total_xrt_minted = 0
\* a cycle of mine_loop succeeds: mine_once returns
CycleSucceeds ==
    /\ mode = "single" /\ pc = "m_finalize" /\ pc' = "m_top"
    /\ chainNonce' = chainNonce + 1 /\ Len(ret') = 2

\* C38: mine_loop with count = c returns, when not interrupted, only with
\* i = c; i advances by one in exactly the steps in which mine_once returns,
\* so not in a cycle that raises and not in an iteration skipped as
\* unprofitable, and the minted total changes only in those steps, by the
\* amount mine_once returned.
C38_ReturnsAfterCountSuccesses ==
    [][/\ (mode = "single" /\ pc # "done" /\ pc' = "done")
            => (args.count # <<>> /\ loop_i = args.count[1])
       /\ CycleSucceeds
            => (loop_i' = loop_i + 1 /\ total_minted' = total_minted + ret'[2])
       /\ (mode = "single" /\ ~CycleSucceeds)
            => (loop_i' = loop_i /\ total_minted' = total_minted)]_vars

\* a gated run with count 2 has returned after two successful cycles and one
\* cycle whose transaction reverted
C38_Witness ==
    /\ mode = "single" /\ pc = "done" /\ ~args.force
    /\ args.count = <<2>> /\ loop_i = 2
    /\ chainNonce = 5 /\ total_minted = 2
\* the loop of mine_pipeline_loop has been left (break of line 539 or the
\* KeyboardInterrupt clause of 637-638) and the function has not ended
LoopLeft ==
    mode = "pipeline" /\ pc \in {"drain", "drain_submit", "drain_collect", "final_sell"}

\* mine_pipeline_loop has ended, by its summary or by an exception
Halted == mode = "pipeline" /\ pc \in {"done", "crashed"}

\* position in the code after the loop
DrainRank(p) ==
    CASE p = "drain" -> 1
      [] p = "drain_submit" -> 2
      [] p = "drain_collect" -> 3
      [] p = "final_sell" -> 4
      [] p \in {"done", "crashed"} -> 5
      [] OTHER -> 0

\* C39: once the loop of mine_pipeline_loop is left (budget check or
\* interrupt) no create transaction is submitted and the code only moves
\* forward: one finalize burst with at most one transaction per carried
\* liability, then one sell attempt of at most one transaction, then the end,
\* from which nothing more happens; and under fair scheduling the end is
\* eventually reached.
C39_PipelineHalts ==
    /\ [][/\ LoopLeft
               => /\ DrainRank(pc') >= DrainRank(pc)
                  /\ chainFactoryNonce' = chainFactoryNonce
                  /\ create_hashes' = <<>>
                  /\ chainNonce' <= chainNonce + 1
          /\ (LoopLeft /\ pc # "final_sell") => lastSell' = lastSell
          /\ (pc = "drain_submit" /\ pc' = "drain_submit")
               => (idx' = idx + 1 /\ idx' <= Len(prev_liabilities))
          /\ pc = "final_sell"
               => (Halted' /\ lastSell'.seq <= lastSell.seq + 1)
          /\ ~Halted]_vars
    /\ (LoopLeft ~> Halted)

\* the loop was left after the bootstrap round; the drain finalized the carried
\* liabilities and the final sell sold what they minted
C39_Witness ==
    /\ mode = "pipeline" /\ pc = "done" /\ batch_num = 1
    /\ total_xrt_minted > 0 /\ lastSell.seq = 1 /\ lastSell.ok
    /\ chainXrt = 0

====
